---- MODULE Spec2Model ----
(***************************************************************************)
(* Ultrawork enhancement tools of kiro-spec-engine.                        *)
(*                                                                         *)
(* Part 1 models the convergence controller UltraworkEnhancerV3            *)
(* (template/.kiro/tools/ultrawork_enhancer_v3.py): one invocation of      *)
(* enhance_requirements_quality / enhance_design_completeness, cut into    *)
(* the read, the early return, the loop body, the loop exit and the save.  *)
(* Scores are integers in tenths of a point (9.0 is 90).  The evaluator,   *)
(* the identifier and the applicator are the controller's collaborators:   *)
(* what they return in a cycle is drawn from small sets, the evaluator     *)
(* being a function of the content it is given.  Contents are numbered:    *)
(* 0 is the content read from disk, every change made by the applicator    *)
(* gives the next number.                                                  *)
(*                                                                         *)
(* Part 2 models the content mutator ModificationApplicator                *)
(* (template/.kiro/tools/modification_applicator.py) on documents given    *)
(* as sequences of lines.                                                  *)
(***************************************************************************)
EXTENDS Integers, Sequences, FiniteSets, TLC

\* ------------------------------------------------------------------------
\* Bounds of the model
\* ------------------------------------------------------------------------
MaxIterations == 3
MaxPlateau == 2
MaxImprovements == 1
ScoreSpan == 2
\* applicator: lines of an input document, improvements of one call, cycles
\* of identification and application in a row, trailing blanks of a line
MaxLines == 2
MaxBatch == 2
MaxCycles == 2
MaxTrail == 1
\* requirements of a document handed to the enhancement cycle
MaxRequirements == 4
\* arguments on the command line of the quality gate
MaxArguments == 3
\* evaluator called directly: lines of a document for the language
\* detection, the largest number of matches of a pattern in a design
\* document, lines of a tasks document
MaxEvalLines == 2
MaxCount == 20
MaxTaskLines == 3
\* backup manager: contents a document takes, readings of the clock, calls
\* and modifications in a run
MaxContent == 2
MaxClock == 2
MaxOperations == 4
\* weights: calls of configure_weights and load_config in a run
MaxOverrides == 3
\* V2 enhancer: scores below the threshold a design document takes, in points
MaxDesignPoints == 2

\* ------------------------------------------------------------------------
\* Program constants (tenths of a point)
\* ------------------------------------------------------------------------
DefaultThreshold == 90
DefaultMinImprovement == 1

ScoreValues == (DefaultThreshold - ScoreSpan)..(DefaultThreshold + 1)
DocumentTypes == {"requirements", "design"}

VARIABLES
    \* configuration of the enhancer (UltraworkEnhancerV3.__init__)
    quality_threshold, max_iterations, plateau_iterations, min_score_improvement,
    \* which method runs: enhance_requirements_quality or enhance_design_completeness
    document_type,
    \* position in the method: "start", "loop", "after_loop", "done"
    pc,
    \* the stored document (content number; -1 is a partially written file)
    file,
    \* every open() attempted, in order: [op, path, ok]
    io_log,
    \* locals of the method
    initial_score, current_content, current_score, score_history,
    all_applied, all_failed, iteration, plateau_count,
    improvements, new_score, score_delta, stopping_reason,
    \* calls made to the collaborators
    identifier_calls, applicator_calls,
    \* the EnhancementResult returned (meaningful when pc = "done")
    result,
    \* ModificationApplicator: the content and language first handed to it,
    \* the content and the list of improvements of its last call and the
    \* ModificationResult returned,
    \* the calls made; ap_kind tells which of its two methods is called
    ap_kind, ap_content, ap_language, ap_input, ap_batch, ap_result, ap_cycles,
    \* workflow_quality_gate.py: sys.argv, the paths that exist, the final
    \* score the enhancer reaches on the document (tenths) and the exit code
    \* of the process (<<>> while it runs)
    gate_argv, gate_files, gate_score, gate_exit,
    \* DocumentEvaluator: the language attribute of the instance, the
    \* arguments of its last call and the QualityAssessment returned, the
    \* assessment returned just before when the call repeats it (else <<>>)
    \* and, per call made, the method and the language it assessed in
    ev_language, ev_call, ev_assessment, ev_previous, ev_log,
    \* validate_tasks_completeness: the tasks document stored, every open()
    \* attempted as [op, path, ok], the methods of the components called
    \* and the EnhancementResult returned (<<>> before the return)
    tk_file, tk_log, tk_calls, tk_result,
    \* BackupManager: the content of each document (0: no such file), the
    \* content of each file of the backup directories, self.backups, the
    \* snapshots create_backup returned as [backup_id, path, content, live]
    \* (live until a cleanup of its id succeeds), the last call with its
    \* outcome and the number of calls and modifications so far
    bk_files, bk_store, bk_backups, bk_taken, bk_last, bk_ops,
    \* weights: QualityScorer.requirements_weights and design_weights in
    \* hundredths, ConfigurationManager.config as a function of its field
    \* names, the last call as [op, outcome] and the number of calls so far
    qs_requirements_weights, qs_design_weights, cm_config, wt_last, wt_calls,
    \* UltraworkEnhancer (V2): the requirements file, the design file
    \* ("original" until the method rewrites it), self.improvement_log, the
    \* score of the first assessment of the call (<<>> when the call assessed
    \* nothing) and the dictionary returned (<<>> before the return)
    v2_requirements, v2_design, v2_improvement_log, v2_assessed, v2_result

ctl_vars == <<quality_threshold, max_iterations, plateau_iterations,
              min_score_improvement, document_type, pc, file, io_log,
              initial_score, current_content, current_score, score_history,
              all_applied, all_failed, iteration, plateau_count,
              improvements, new_score, score_delta, stopping_reason,
              identifier_calls, applicator_calls, result>>

ap_vars == <<ap_kind, ap_content, ap_language, ap_input, ap_batch,
             ap_result, ap_cycles>>

gate_vars == <<gate_argv, gate_files, gate_score, gate_exit>>

ev_vars == <<ev_language, ev_call, ev_assessment, ev_previous, ev_log>>

tk_vars == <<tk_file, tk_log, tk_calls, tk_result>>

bk_vars == <<bk_files, bk_store, bk_backups, bk_taken, bk_last, bk_ops>>

wt_vars == <<qs_requirements_weights, qs_design_weights, cm_config, wt_last, wt_calls>>

v2_vars == <<v2_requirements, v2_design, v2_improvement_log, v2_assessed, v2_result>>

vars == <<ctl_vars, ap_vars, gate_vars, ev_vars, tk_vars, bk_vars, wt_vars, v2_vars>>

Last(s) == s[Len(s)]

\* ------------------------------------------------------------------------
\* EnhancementResult constructors
\* ------------------------------------------------------------------------
EnhancementResult(succ, init, final, iters, applied, failed, reason, hist) ==
    [success |-> succ, initial_score |-> init, final_score |-> final,
     iterations |-> iters, improvements_applied |-> applied,
     improvements_failed |-> failed, stopping_reason |-> reason,
     score_history |-> hist]

\* The early return giving a final score of its own instead of the score
\* assessed.
AlreadyMeetsResultNoScore(score) ==
    EnhancementResult(TRUE, score, 0, 0, 0, 0, "threshold_reached", <<score>>)

AlreadyMeetsResult(score) ==
    EnhancementResult(TRUE, score, score, 0, 0, 0, "threshold_reached", <<score>>)

\* A failed save reported as a success (the except branch falling through).
WriteErrorSwallowed(init, final, iters, applied, failed, hist) ==
    EnhancementResult(TRUE, init, final, iters, applied, failed,
                      "max_iterations", hist)

WriteErrorResult(init, final, iters, applied, failed, hist) ==
    EnhancementResult(FALSE, init, final, iters, applied, failed,
                      "file_write_error", hist)

\* ------------------------------------------------------------------------
\* Conditions of the improvement loop
\* ------------------------------------------------------------------------
\* The loop guard taken one cycle too far (<= for <).
LoopContinuesOffByOne(it, maxit) == it <= maxit

\* while iteration < self.max_iterations
LoopContinues(it, maxit) == it < maxit

\* The threshold test made strict (> for >=).
ThresholdReachedStrict(score, threshold) == score > threshold

\* 1. if new_score >= self.quality_threshold
ThresholdReached(score, threshold) == score >= threshold

\* 2. if score_delta < self.min_score_improvement
LowDelta(delta, min_improvement) == delta < min_improvement

\* The plateau counter without its reset: a total instead of a run length.
NextPlateauCountNoReset(count, delta, min_improvement) ==
    IF delta < min_improvement THEN count + 1 ELSE count

\* plateau_count += 1 on a low delta, plateau_count = 0 otherwise
NextPlateauCount(count, delta, min_improvement) ==
    IF LowDelta(delta, min_improvement) THEN count + 1 ELSE 0

\* ------------------------------------------------------------------------
\* Init: the enhancer as constructed, a document on disk, nothing run yet
\* ------------------------------------------------------------------------
EnhancerInit ==
    LET
        Thresholds == {DefaultThreshold}
        MinImprovements == {DefaultMinImprovement, DefaultMinImprovement + 1}
        NoResult == EnhancementResult(FALSE, 0, 0, 0, 0, 0, "", <<>>)
    IN
    /\ quality_threshold \in Thresholds
    /\ max_iterations \in 1..MaxIterations
    /\ plateau_iterations \in 1..MaxPlateau
    /\ min_score_improvement \in MinImprovements
    /\ document_type \in DocumentTypes
    /\ pc = "start"
    /\ file = 0
    /\ io_log = <<>>
    /\ initial_score = 0
    /\ current_content = 0
    /\ current_score = 0
    /\ score_history = <<>>
    /\ all_applied = 0
    /\ all_failed = 0
    /\ iteration = 0
    /\ plateau_count = 0
    /\ improvements = 0
    /\ new_score = 0
    /\ score_delta = 0
    /\ stopping_reason = ""
    /\ identifier_calls = 0
    /\ applicator_calls = 0
    /\ result = NoResult

\* no call of the applicator is modelled line by line in an enhancer run
ApplicatorIdle ==
    /\ ap_kind = "requirements"
    /\ ap_content = <<>>
    /\ ap_input = <<>>
    /\ ap_batch = <<>>
    /\ ap_language = "en"
    /\ ap_result = [modified_content |-> <<>>, applied_improvements |-> <<>>,
                    failed_improvements |-> <<>>]
    /\ ap_cycles = 0

\* None as the target_section where a string is expected
NoneValue == "<None>"

\* The components a specification does not call stay as constructed.
Unused(used) ==
    LET
        \* no run of the workflow quality gate
        GateIdle ==
            /\ gate_argv = <<>>
            /\ gate_files = {}
            /\ gate_score = 0
            /\ gate_exit = <<>>
    IN
    /\ IF "enhancer" \in used THEN TRUE
       ELSE /\ EnhancerInit
            /\ quality_threshold = DefaultThreshold
            /\ max_iterations = 1
            /\ plateau_iterations = 1
            /\ min_score_improvement = DefaultMinImprovement
            /\ document_type = "requirements"
    /\ IF "applicator" \in used THEN TRUE ELSE ApplicatorIdle
    /\ IF "gate" \in used THEN TRUE ELSE GateIdle
    /\ IF "evaluator" \in used THEN TRUE
       ELSE ev_language = NoneValue /\ ev_call = <<>> /\ ev_assessment = <<>>
              /\ ev_previous = <<>> /\ ev_log = <<>>
    /\ IF "tasks" \in used THEN TRUE
       ELSE tk_file = <<>> /\ tk_log = <<>> /\ tk_calls = <<>> /\ tk_result = <<>>
    /\ IF "backup" \in used THEN TRUE
       ELSE bk_files = <<>> /\ bk_store = <<>> /\ bk_backups = <<>>
              /\ bk_taken = <<>> /\ bk_last = <<>> /\ bk_ops = 0
    /\ IF "weights" \in used THEN TRUE
       ELSE qs_requirements_weights = <<>> /\ qs_design_weights = <<>>
              /\ cm_config = <<>> /\ wt_last = <<>> /\ wt_calls = 0
    /\ IF "v2" \in used THEN TRUE
       ELSE v2_requirements = <<>> /\ v2_design = "" /\ v2_improvement_log = <<>>
              /\ v2_assessed = <<>> /\ v2_result = <<>>

Init == EnhancerInit /\ Unused({"enhancer"})

config_vars == <<quality_threshold, max_iterations, plateau_iterations,
                 min_score_improvement, document_type>>
loop_vars == <<current_content, current_score, score_history, all_applied,
               all_failed, iteration, plateau_count, improvements, new_score,
               score_delta, stopping_reason, identifier_calls, applicator_calls>>

\* The open(..., 'r') calls of the method, in order: the requirements method
\* reads its document, the design method the design and then the
\* requirements document.
ReadPaths(dtype) ==
    IF dtype = "design" THEN <<"document", "requirements">> ELSE <<"document">>

\* The reads attempted when the k-th open fails (k = 0: none fails).
ReadLog(dtype, k) ==
    LET
        ReadEntry(path, ok) == [op |-> "read", path |-> path, ok |-> ok]
    IN
    LET paths == ReadPaths(dtype)
        n == IF k = 0 THEN Len(paths) ELSE k
    IN  [i \in 1..n |-> ReadEntry(paths[i], i # k)]

\* try: open(...).read()  except Exception: return file_read_error
ReadError ==
    LET
        ReadErrorResult ==
            EnhancementResult(FALSE, 0, 0, 0, 0, 0, "file_read_error", <<>>)
    IN
    /\ pc = "start"
    /\ \E k \in 1..Len(ReadPaths(document_type)) :
          io_log' = io_log \o ReadLog(document_type, k)
    /\ result' = ReadErrorResult
    /\ pc' = "done"
    /\ UNCHANGED <<config_vars, file, initial_score, loop_vars>>
    /\ UNCHANGED <<ap_vars, gate_vars, ev_vars, tk_vars, bk_vars, wt_vars, v2_vars>>

\* read succeeds, initial assessment already meets the threshold
AlreadyMeetsThreshold ==
    /\ pc = "start"
    /\ \E s \in ScoreValues :
          /\ ThresholdReached(s, quality_threshold)
          /\ initial_score' = s
          /\ result' = AlreadyMeetsResult(s)
    /\ io_log' = io_log \o ReadLog(document_type, 0)
    /\ pc' = "done"
    /\ UNCHANGED <<config_vars, file, loop_vars>>
    /\ UNCHANGED <<ap_vars, gate_vars, ev_vars, tk_vars, bk_vars, wt_vars, v2_vars>>

\* read succeeds, initial assessment below the threshold: set up the loop
StartLoop ==
    /\ pc = "start"
    /\ \E s \in ScoreValues :
          /\ ~ThresholdReached(s, quality_threshold)
          /\ initial_score' = s
          /\ current_score' = s
          /\ score_history' = <<s>>
    /\ io_log' = io_log \o ReadLog(document_type, 0)
    /\ current_content' = file
    /\ all_applied' = 0
    /\ all_failed' = 0
    /\ iteration' = 0
    /\ plateau_count' = 0
    /\ pc' = "loop"
    /\ UNCHANGED <<config_vars, file, improvements, new_score, score_delta,
                   stopping_reason, identifier_calls, applicator_calls, result>>
    /\ UNCHANGED <<ap_vars, gate_vars, ev_vars, tk_vars, bk_vars, wt_vars, v2_vars>>

\* ------------------------------------------------------------------------
\* The improvement loop
\* ------------------------------------------------------------------------
\* One pass of the while body (identify, apply, re-score, convergence checks).
Iterate ==
    LET
        \* if plateau_count >= self.plateau_iterations
        PlateauReached(count, plateau) == count >= plateau
        \* The evaluator is a function of the content: an unchanged content is
        \* re-scored as before, a changed content may score anything.
        Rescore(changed, previous) == IF changed THEN ScoreValues ELSE {previous}
    IN
    /\ pc = "loop"
    /\ LoopContinues(iteration, max_iterations)
    /\ iteration' = iteration + 1
    /\ identifier_calls' = identifier_calls + 1
    /\ \E n \in 0..MaxImprovements :
        /\ improvements' = n
        /\ IF n = 0
           THEN \* if not improvements: break
                /\ stopping_reason' = "no_improvements"
                /\ pc' = "after_loop"
                /\ UNCHANGED <<current_content, current_score, score_history,
                               all_applied, all_failed, plateau_count,
                               new_score, score_delta, applicator_calls>>
           ELSE \E a \in 0..n : \E f \in 0..(n - a) :
                \E s \in Rescore(a > 0, current_score) :
                /\ applicator_calls' = applicator_calls + 1
                /\ current_content' = IF a > 0 THEN current_content + 1
                                               ELSE current_content
                /\ all_applied' = all_applied + a
                /\ all_failed' = all_failed + f
                /\ new_score' = s
                /\ score_history' = Append(score_history, s)
                /\ score_delta' = s - current_score
                /\ current_score' = s
                /\ IF ThresholdReached(s, quality_threshold)
                   THEN /\ stopping_reason' = "threshold_reached"
                        /\ plateau_count' = plateau_count
                        /\ pc' = "after_loop"
                   ELSE /\ plateau_count' =
                              NextPlateauCount(plateau_count, s - current_score,
                                               min_score_improvement)
                        /\ IF /\ LowDelta(s - current_score, min_score_improvement)
                              /\ PlateauReached(plateau_count', plateau_iterations)
                           THEN /\ stopping_reason' = "plateau"
                                /\ pc' = "after_loop"
                           ELSE /\ stopping_reason' = stopping_reason
                                /\ pc' = "loop"
    /\ UNCHANGED <<config_vars, file, io_log, initial_score, result>>
    /\ UNCHANGED <<ap_vars, gate_vars, ev_vars, tk_vars, bk_vars, wt_vars, v2_vars>>

\* The while condition is false: fall out of the loop.
LoopExhausted ==
    /\ pc = "loop"
    /\ ~LoopContinues(iteration, max_iterations)
    /\ pc' = "after_loop"
    /\ UNCHANGED <<config_vars, file, io_log, initial_score, loop_vars, result>>
    /\ UNCHANGED <<ap_vars, gate_vars, ev_vars, tk_vars, bk_vars, wt_vars, v2_vars>>

\* After the loop: max-iterations check, then the save (try: open(..., 'w'),
\* write; except Exception: return file_write_error), then the return.
Finish ==
    LET
        WriteEntry(ok) == [op |-> "write", path |-> "document", ok |-> ok]
        \* if iteration >= self.max_iterations: stopping_reason = 'max_iterations'
        StoppingReasonAfterLoop(it, maxit, reason) ==
            IF it >= maxit THEN "max_iterations" ELSE reason
        \* What a failed open(..., 'w') / write leaves on disk: the old file or a
        \* partial one.
        AfterFailedWrite(old) == {old, -1}
        FinalResult(init, final, iters, applied, failed, reason, hist) ==
            EnhancementResult(TRUE, init, final, iters, applied, failed, reason, hist)
    IN
    /\ pc = "after_loop"
    /\ stopping_reason' =
          StoppingReasonAfterLoop(iteration, max_iterations, stopping_reason)
    /\ \E ok \in BOOLEAN :
          /\ io_log' = Append(io_log, WriteEntry(ok))
          /\ IF ok
             THEN /\ file' = current_content
                  /\ result' = FinalResult(initial_score, current_score,
                                   iteration, all_applied, all_failed,
                                   stopping_reason', score_history)
             ELSE /\ file' \in AfterFailedWrite(file)
                  /\ result' = WriteErrorResult(initial_score, current_score,
                                   iteration, all_applied, all_failed,
                                   score_history)
    /\ pc' = "done"
    /\ UNCHANGED <<config_vars, initial_score, current_content, current_score,
                   score_history, all_applied, all_failed, iteration,
                   plateau_count, improvements, new_score, score_delta,
                   identifier_calls, applicator_calls>>
    /\ UNCHANGED <<ap_vars, gate_vars, ev_vars, tk_vars, bk_vars, wt_vars, v2_vars>>

Next ==
    \/ ReadError
    \/ AlreadyMeetsThreshold
    \/ StartLoop
    \/ Iterate
    \/ LoopExhausted
    \/ Finish

Spec == Init /\ [][Next]_vars

\* The method runs to completion once called: nothing suspends it.
FairSpec == Spec /\ WF_vars(Next)

\* ========================================================================
\* Part 2: ModificationApplicator (modification_applicator.py)
\*
\* A content is a Python str seen as content.split('\n'): a non-empty
\* sequence of lines, the empty string being one empty line.  A line is its
\* text without trailing blanks plus the number of trailing blanks; a line
\* with no text is blank (line.strip() == '').  Characters outside ASCII and
\* the backquote are written <xxxx>, the hexadecimal code point.  All insertions of the
\* applicator are made at the start or at the end of a line, so that the
\* lines are the unit of every operation below.
\* ========================================================================
Ln(t) == [text |-> t, trail |-> 0]
EmptyLine == Ln("")
EmptyStr == <<EmptyLine>>
IsBlank(l) == l.text = ""

\* a + b on strings: the last line of a and the first line of b become one.
RECURSIVE Blanks(_)
Blanks(n) == IF n = 0 THEN "" ELSE " " \o Blanks(n - 1)

StrConcat(a, b) ==
    LET
        JoinLine(x, y) ==
            IF y.text = "" THEN [text |-> x.text, trail |-> x.trail + y.trail]
            ELSE [text |-> x.text \o Blanks(x.trail) \o y.text, trail |-> y.trail]
    IN
    SubSeq(a, 1, Len(a) - 1) \o <<JoinLine(a[Len(a)], b[1])>> \o Tail(b)

\* content[:pos] + addition + content[pos:], pos at the end of line i
\* (just before its '\n', or the end of the content when i = Len(c)).
InsertAtLineEnd(c, i, addition) ==
    StrConcat(StrConcat(SubSeq(c, 1, i), addition),
              <<EmptyLine>> \o SubSeq(c, i + 1, Len(c)))

\* content[:pos] + addition + content[pos:], pos at the start of line i
\* (just after the '\n' that ends line i - 1).
InsertAtLineStart(c, i, addition) ==
    StrConcat(StrConcat(SubSeq(c, 1, i - 1) \o <<EmptyLine>>, addition),
              SubSeq(c, i, Len(c)))

\* '\n\n' + template
TwoNewlines == <<EmptyLine, EmptyLine, EmptyLine>>

\* content.rstrip() + '\n\n' + template
AppendAtEnd(c, template) ==
    LET
        RStrip(c_) ==
            LET
                \* content.rstrip(): trailing blank lines and the trailing blanks of the
                \* last line with text are removed.
                LastTextLine(c__) ==
                    IF \E i \in DOMAIN c__ : ~IsBlank(c__[i])
                    THEN CHOOSE i \in DOMAIN c__ :
                            ~IsBlank(c__[i]) /\ \A j \in DOMAIN c__ : j > i => IsBlank(c__[j])
                    ELSE 0
            IN
            LET n == LastTextLine(c_)
            IN  IF n = 0 THEN EmptyStr
                ELSE SubSeq(c_, 1, n - 1) \o <<[c_[n] EXCEPT !.trail = 0]>>
    IN
    StrConcat(StrConcat(RStrip(c), TwoNewlines), template)

\* First line from index from on whose text is in the set S (0: none).
FirstLineIn(c, S, from) ==
    IF \E i \in from..Len(c) : c[i].text \in S
    THEN CHOOSE i \in from..Len(c) :
            c[i].text \in S /\ \A j \in from..(i - 1) : c[j].text \notin S
    ELSE 0

AnyLineIn(c, S) == \E i \in DOMAIN c : c[i].text \in S

\* ------------------------------------------------------------------------
\* Templates and inserted texts (the string literals of the source)
\* ------------------------------------------------------------------------
\* _get_template: templates.get(template_name, '')
GetTemplate(template_name) ==
    IF template_name = "introduction_zh" THEN
        <<Ln("## 1. <6982><8ff0>"), Ln(""),
          Ln("<672c><6587><6863><63cf><8ff0><4e86><7cfb><7edf><7684><9700><6c42><89c4><683c><8bf4><660e><3002>"),
          Ln(""), Ln("### 1.1 <9879><76ee><80cc><666f>"),
          Ln("[<5f85><8865><5145><9879><76ee><80cc><666f><4fe1><606f>]"),
          Ln(""), Ln("### 1.2 <9879><76ee><76ee><6807>"),
          Ln("[<5f85><8865><5145><9879><76ee><76ee><6807>]"), Ln("")>>
    ELSE IF template_name = "introduction_en" THEN
        <<Ln("## Introduction"), Ln(""),
          Ln("This document describes the system requirements specification."),
          Ln(""), Ln("### Project Background"),
          Ln("[To be filled with project background information]"), Ln(""),
          Ln("### Project Goals"), Ln("[To be filled with project goals]"),
          Ln("")>>
    ELSE IF template_name = "overview_zh" THEN
        <<Ln("## 1. <7cfb><7edf><6982><8ff0>"), Ln(""),
          Ln("<672c><8bbe><8ba1><6587><6863><63cf><8ff0><4e86><7cfb><7edf><7684><67b6><6784><548c><7ec4><4ef6><8bbe><8ba1><3002>"),
          Ln(""), Ln("### 1.1 <8bbe><8ba1><76ee><6807>"),
          Ln("- <6a21><5757><5316><8bbe><8ba1><ff0c><6613><4e8e><7ef4><62a4><548c><6269><5c55>"),
          Ln("- <9ad8><6027><80fd><ff0c><6ee1><8db3><4e1a><52a1><9700><6c42>"),
          Ln("- <5b89><5168><53ef><9760><ff0c><4fdd><969c><6570><636e><5b89><5168>"),
          Ln(""), Ln("### 1.2 <8bbe><8ba1><65b9><6cd5>"),
          Ln("<91c7><7528><5206><5c42><67b6><6784><ff0c><5c06><7cfb><7edf><5212><5206><4e3a><8868><793a><5c42><3001><4e1a><52a1><903b><8f91><5c42><548c><6570><636e><8bbf><95ee><5c42><3002>"),
          Ln("")>>
    ELSE IF template_name = "overview_en" THEN
        <<Ln("## Overview"), Ln(""),
          Ln("This design document describes the system architecture and component design."),
          Ln(""), Ln("### Design Goals"),
          Ln("- Modular design for easy maintenance and extension"),
          Ln("- High performance to meet business requirements"),
          Ln("- Secure and reliable to ensure data safety"), Ln(""),
          Ln("### Design Approach"),
          Ln("Adopts layered architecture, dividing the system into presentation layer, business logic layer, and data access layer."),
          Ln("")>>
    ELSE IF template_name = "architecture_zh" THEN
        <<Ln("## 2. <67b6><6784><8bbe><8ba1>"), Ln(""),
          Ln("### 2.1 <7cfb><7edf><67b6><6784>"), Ln(""),
          Ln("<7cfb><7edf><91c7><7528><4e09><5c42><67b6><6784><8bbe><8ba1><ff1a>"),
          Ln(""), Ln("<0060><0060><0060>mermaid"), Ln("graph TB"),
          Ln("    A[<8868><793a><5c42>] --> B[<4e1a><52a1><903b><8f91><5c42>]"),
          Ln("    B --> C[<6570><636e><8bbf><95ee><5c42>]"),
          Ln("    C --> D[<6570><636e><5b58><50a8>]"),
          Ln("<0060><0060><0060>"), Ln(""),
          Ln("### 2.2 <67b6><6784><8bf4><660e>"),
          Ln("- **<8868><793a><5c42>**: <8d1f><8d23><7528><6237><754c><9762><548c><4ea4><4e92>"),
          Ln("- **<4e1a><52a1><903b><8f91><5c42>**: <5904><7406><6838><5fc3><4e1a><52a1><903b><8f91>"),
          Ln("- **<6570><636e><8bbf><95ee><5c42>**: <5c01><88c5><6570><636e><5e93><64cd><4f5c>"),
          Ln("")>>
    ELSE IF template_name = "architecture_en" THEN
        <<Ln("## Architecture"), Ln(""), Ln("### System Architecture"),
          Ln(""), Ln("The system adopts a three-tier architecture:"), Ln(""),
          Ln("<0060><0060><0060>mermaid"), Ln("graph TB"),
          Ln("    A[Presentation Layer] --> B[Business Logic Layer]"),
          Ln("    B --> C[Data Access Layer]"),
          Ln("    C --> D[Data Storage]"), Ln("<0060><0060><0060>"), Ln(""),
          Ln("### Architecture Description"),
          Ln("- **Presentation Layer**: Handles user interface and interaction"),
          Ln("- **Business Logic Layer**: Processes core business logic"),
          Ln("- **Data Access Layer**: Encapsulates database operations"),
          Ln("")>>
    ELSE IF template_name = "components_zh" THEN
        <<Ln("## 3. <7ec4><4ef6><8bbe><8ba1>"), Ln(""),
          Ln("### 3.1 <7ec4><4ef6><6982><8ff0>"),
          Ln("<7cfb><7edf><5305><542b><4ee5><4e0b><6838><5fc3><7ec4><4ef6><ff1a>"),
          Ln("- <7528><6237><7ba1><7406><7ec4><4ef6>"),
          Ln("- <6570><636e><5904><7406><7ec4><4ef6>"),
          Ln("- <63a5><53e3><670d><52a1><7ec4><4ef6>"), Ln("")>>
    ELSE IF template_name = "components_en" THEN
        <<Ln("## Components"), Ln(""), Ln("### Component Overview"),
          Ln("The system includes the following core components:"),
          Ln("- User Management Component"),
          Ln("- Data Processing Component"),
          Ln("- Interface Service Component"), Ln("")>>
    ELSE EmptyStr

\* ------------------------------------------------------------------------
\* Tests of the source on one line, as the set of the line texts that pass
\* (over the input lines and every line the applicator can insert)
\* ------------------------------------------------------------------------

\* '\n## ' found at the start of the line
StartsWithH2 ==
    {"## Introduction", "## Requirements", "## Non-functional Requirements",
     "## Non-Functional Requirements", "## 1. <6982><8ff0>",
     "## 3. <529f><80fd><9700><6c42>",
     "## 4. <975e><529f><80fd><9700><6c42>",
     "## <975e><529f><80fd><9700><6c42>", "## Overview", "## Architecture",
     "## Components", "## 2. <67b6><6784><8bbe><8ba1>",
     "## 3. <7ec4><4ef6><8bbe><8ba1>", "## 1. <7cfb><7edf><6982><8ff0>",
     "## Glossary", "## Technology Stack", "## Correctness Properties",
     "## <672f><8bed><8868>", "## <6280><672f><9009><578b>",
     "## <6b63><786e><6027><5c5e><6027>"}

\* '\n### ' found at the start of the line
StartsWithH3 ==
    {"### Requirement 1.1 Login", "### 1.1 <7528><6237><767b><5f55>",
     "### 3.1 Parser Component", "### 3.1 <89e3><6790><7ec4><4ef6>",
     "### 1.1 <9879><76ee><80cc><666f>", "### 1.2 <9879><76ee><76ee><6807>",
     "### Project Background", "### Project Goals",
     "### 1.1 <8bbe><8ba1><76ee><6807>", "### 1.2 <8bbe><8ba1><65b9><6cd5>",
     "### Design Goals", "### Design Approach",
     "### 2.1 <7cfb><7edf><67b6><6784>", "### 2.2 <67b6><6784><8bf4><660e>",
     "### System Architecture", "### Architecture Description",
     "### 3.1 <7ec4><4ef6><6982><8ff0>", "### Component Overview",
     "### Performance Requirements", "### Security Requirements",
     "### Usability Requirements", "### Maintainability Requirements",
     "### Error Handling Requirements", "### Scalability Requirements",
     "### Reliability Requirements", "### System Architecture Diagram",
     "### Core Technologies", "### Selection Rationale",
     "### Property 1: Data Consistency",
     "### Property 2: Operation Idempotency", "### 3.1 Core Component",
     "### 4.1 <6027><80fd><9700><6c42>", "### 4.2 <5b89><5168><9700><6c42>",
     "### 4.3 <53ef><7528><6027><9700><6c42>",
     "### 4.4 <53ef><7ef4><62a4><6027><9700><6c42>",
     "### <9519><8bef><5904><7406><9700><6c42>", "### <6027><80fd>",
     "### <5b89><5168>", "### <53ef><7528><6027>",
     "### <53ef><7ef4><62a4><6027>", "### <517c><5bb9><6027>",
     "### <53ef><6269><5c55><6027>", "### <7cfb><7edf><67b6><6784><56fe>",
     "### <6838><5fc3><6280><672f><6808>", "### <9009><578b><7406><7531>",
     "### <5c5e><6027> 1: <6570><636e><4e00><81f4><6027>",
     "### <5c5e><6027> 2: <64cd><4f5c><5e42><7b49><6027>",
     "### 3.1 <6838><5fc3><7ec4><4ef6>"}

\* "## 4. <975e><529f><80fd><9700><6c42>" in content or "## Non-functional Requirements" in content
NfrHeadingLiteral ==
    {"## Non-functional Requirements", "## 4. <975e><529f><80fd><9700><6c42>"}

\* nfr_pattern of _append_to_nfr_section, re.IGNORECASE
NfrHeadingPattern ==
    {"## Non-functional Requirements", "## Non-Functional Requirements",
     "## 4. <975e><529f><80fd><9700><6c42>",
     "## <975e><529f><80fd><9700><6c42>"}

\* req_pattern '### (?:Requirement )?\d+\.\d+[^\n]*' (the '\n' is checked on the line index)
RequirementHeading ==
    {"### Requirement 1.1 Login", "### 1.1 <7528><6237><767b><5f55>",
     "### 3.1 Parser Component", "### 3.1 <89e3><6790><7ec4><4ef6>",
     "### 1.1 <9879><76ee><80cc><666f>", "### 1.2 <9879><76ee><76ee><6807>",
     "### 1.1 <8bbe><8ba1><76ee><6807>", "### 1.2 <8bbe><8ba1><65b9><6cd5>",
     "### 2.1 <7cfb><7edf><67b6><6784>", "### 2.2 <67b6><6784><8bf4><660e>",
     "### 3.1 <7ec4><4ef6><6982><8ff0>", "### 3.1 Core Component",
     "### 4.1 <6027><80fd><9700><6c42>", "### 4.2 <5b89><5168><9700><6c42>",
     "### 4.3 <53ef><7528><6027><9700><6c42>",
     "### 4.4 <53ef><7ef4><62a4><6027><9700><6c42>",
     "### 3.1 <6838><5fc3><7ec4><4ef6>"}

\* '\*\*<9a8c><6536><6807><51c6>\*\*:'
AcceptanceMarkerZh ==
    {"**<9a8c><6536><6807><51c6>**:"}

\* '#### Acceptance Criteria'
AcceptanceMarkerEn ==
    {"#### Acceptance Criteria"}

\* '## (?:3\. )?<7ec4><4ef6><8bbe><8ba1>', re.IGNORECASE
ComponentsHeadingZh ==
    {"## 3. <7ec4><4ef6><8bbe><8ba1>"}

\* '## Components', re.IGNORECASE
ComponentsHeadingEn ==
    {"## Components"}

\* '### \d+\.\d+ [^\n]+' (the '\n' is checked on the line index)
ComponentHeading ==
    {"### 1.1 <7528><6237><767b><5f55>", "### 3.1 Parser Component",
     "### 3.1 <89e3><6790><7ec4><4ef6>", "### 1.1 <9879><76ee><80cc><666f>",
     "### 1.2 <9879><76ee><76ee><6807>", "### 1.1 <8bbe><8ba1><76ee><6807>",
     "### 1.2 <8bbe><8ba1><65b9><6cd5>", "### 2.1 <7cfb><7edf><67b6><6784>",
     "### 2.2 <67b6><6784><8bf4><660e>", "### 3.1 <7ec4><4ef6><6982><8ff0>",
     "### 3.1 Core Component", "### 4.1 <6027><80fd><9700><6c42>",
     "### 4.2 <5b89><5168><9700><6c42>",
     "### 4.3 <53ef><7528><6027><9700><6c42>",
     "### 4.4 <53ef><7ef4><62a4><6027><9700><6c42>",
     "### 3.1 <6838><5fc3><7ec4><4ef6>"}

\* section_name in content (_add_section_to_design)
DesignSectionLines(section_name) ==
    IF section_name = "Overview" THEN
        {"## Overview", "### Component Overview"}
    ELSE IF section_name = "Architecture" THEN
        {"## Architecture", "### System Architecture",
         "### Architecture Description", "### System Architecture Diagram"}
    ELSE IF section_name = "Error Handling" THEN
        {"### Error Handling Requirements"}
    ELSE IF section_name = "<7cfb><7edf><6982><8ff0>" THEN
        {"## 1. <7cfb><7edf><6982><8ff0>"}
    ELSE IF section_name = "<67b6><6784><8bbe><8ba1>" THEN
        {"## 2. <67b6><6784><8bbe><8ba1>",
         "<7cfb><7edf><91c7><7528><4e09><5c42><67b6><6784><8bbe><8ba1><ff1a>"}
    ELSE IF section_name = "<9519><8bef><5904><7406>" THEN
        {"### <9519><8bef><5904><7406><9700><6c42>"}
    ELSE {}

\* Mutant of SectionLines: the section is never found.
SectionLinesNone(section_name, language) == {}

\* section_name in content or (language == 'en' and section_name.lower() in content.lower())
SectionLines(section_name, language) ==
    IF section_name = "Introduction" /\ language = "en" THEN
        {"## Introduction"}
    ELSE IF section_name = "Introduction" /\ language = "zh" THEN
        {"## Introduction"}
    ELSE IF section_name = "User Stories" /\ language = "en" THEN{}
    ELSE IF section_name = "User Stories" /\ language = "zh" THEN{}
    ELSE IF section_name = "Requirements" /\ language = "en" THEN
        {"## Requirements", "## Non-functional Requirements",
         "## Non-Functional Requirements",
         "This document describes the system requirements specification.",
         "- High performance to meet business requirements",
         "### Performance Requirements", "### Security Requirements",
         "### Usability Requirements", "### Maintainability Requirements",
         "### Error Handling Requirements", "### Scalability Requirements",
         "### Reliability Requirements",
         "- Meets performance and scalability requirements",
         "**Validates**: Requirements 1.1, 1.2",
         "**Validates**: Requirements 2.1",
         "**<9a8c><8bc1>**: Requirements 1.1, 1.2",
         "**<9a8c><8bc1>**: Requirements 2.1",
         "**Validates: Requirements 1.1, 1.2**"}
    ELSE IF section_name = "Requirements" /\ language = "zh" THEN
        {"## Requirements", "## Non-functional Requirements",
         "## Non-Functional Requirements", "### Performance Requirements",
         "### Security Requirements", "### Usability Requirements",
         "### Maintainability Requirements",
         "### Error Handling Requirements", "### Scalability Requirements",
         "### Reliability Requirements",
         "**Validates**: Requirements 1.1, 1.2",
         "**Validates**: Requirements 2.1",
         "**<9a8c><8bc1>**: Requirements 1.1, 1.2",
         "**<9a8c><8bc1>**: Requirements 2.1",
         "**Validates: Requirements 1.1, 1.2**"}
    ELSE IF section_name = "Constraints" /\ language = "en" THEN{}
    ELSE IF section_name = "Constraints" /\ language = "zh" THEN{}
    ELSE IF section_name = "<6982><8ff0>" /\ language = "en" THEN
        {"## 1. <6982><8ff0>", "## 1. <7cfb><7edf><6982><8ff0>",
         "### 3.1 <7ec4><4ef6><6982><8ff0>"}
    ELSE IF section_name = "<6982><8ff0>" /\ language = "zh" THEN
        {"## 1. <6982><8ff0>", "## 1. <7cfb><7edf><6982><8ff0>",
         "### 3.1 <7ec4><4ef6><6982><8ff0>"}
    ELSE IF section_name = "<7528><6237><6545><4e8b>" /\ language = "en" THEN
        {"**<7528><6237><6545><4e8b>**: <4f5c><4e3a><7528><6237><ff0c><6211><5e0c><671b><7cfb><7edf><80fd><591f><4f18><96c5><5730><5904><7406><9519><8bef><ff0c><4ee5><4fbf><6211><4e86><89e3><95ee><9898><5e76><91c7><53d6><76f8><5e94><63aa><65bd><3002>"}
    ELSE IF section_name = "<7528><6237><6545><4e8b>" /\ language = "zh" THEN
        {"**<7528><6237><6545><4e8b>**: <4f5c><4e3a><7528><6237><ff0c><6211><5e0c><671b><7cfb><7edf><80fd><591f><4f18><96c5><5730><5904><7406><9519><8bef><ff0c><4ee5><4fbf><6211><4e86><89e3><95ee><9898><5e76><91c7><53d6><76f8><5e94><63aa><65bd><3002>"}
    ELSE IF section_name = "<529f><80fd><9700><6c42>" /\ language = "en" THEN
        {"## 3. <529f><80fd><9700><6c42>",
         "## 4. <975e><529f><80fd><9700><6c42>",
         "## <975e><529f><80fd><9700><6c42>"}
    ELSE IF section_name = "<529f><80fd><9700><6c42>" /\ language = "zh" THEN
        {"## 3. <529f><80fd><9700><6c42>",
         "## 4. <975e><529f><80fd><9700><6c42>",
         "## <975e><529f><80fd><9700><6c42>"}
    ELSE IF section_name = "<7ea6><675f><6761><4ef6>" /\ language = "en" THEN{}
    ELSE IF section_name = "<7ea6><675f><6761><4ef6>" /\ language = "zh" THEN{}
    ELSE {}

\* ------------------------------------------------------------------------
\* Insertion strategies for a requirements document
\* ------------------------------------------------------------------------

\* ''.join(additions) for nfr in missing_nfr[:3]
RECURSIVE JoinNfrAdditions(_, _)
JoinNfrAdditions(missing_nfr, language) ==
    LET
        NfrAddition(nfr, language_) ==
            LET
                \* one addition of _append_to_nfr_section: zh "\n### {nfr}\n- ...{nfr}...\n",
                \* en "\n### {nfr.title()} Requirements\n- To be specified\n"
                \* str.title() on the keywords of the identifier
                Title(nfr_) ==
                    IF nfr_ = "performance" THEN "Performance"
                    ELSE IF nfr_ = "security" THEN "Security"
                    ELSE IF nfr_ = "usability" THEN "Usability"
                    ELSE IF nfr_ = "maintainability" THEN "Maintainability"
                    ELSE IF nfr_ = "scalability" THEN "Scalability"
                    ELSE IF nfr_ = "reliability" THEN "Reliability"
                    ELSE nfr_
            IN
            IF language_ = "zh"
            THEN <<EmptyLine, Ln("### " \o nfr),
                   Ln("- <5f85><8865><5145><5177><4f53>" \o nfr \o "<8981><6c42>"), EmptyLine>>
            ELSE <<EmptyLine, Ln("### " \o Title(nfr) \o " Requirements"),
                   Ln("- To be specified"), EmptyLine>>
    IN
    IF missing_nfr = <<>> THEN EmptyStr
    ELSE StrConcat(NfrAddition(Head(missing_nfr), language),
                   JoinNfrAdditions(Tail(missing_nfr), language))

FirstThree(s) == SubSeq(s, 1, IF Len(s) < 3 THEN Len(s) ELSE 3)

\* Insertion of '\n\n' + template after the span that starts at the first
\* line in anchors and ends before the next line in stops (or at the end of
\* the content); at the end of the stripped content when there is no anchor.
InsertAfterSpan(content, anchors, stops, template) ==
    LET anchor == FirstLineIn(content, anchors, 1)
        stop == FirstLineIn(content, stops, anchor + 1)
        span_end == IF stop # 0 THEN stop - 1 ELSE Len(content)
    IN  IF anchor = 0 THEN AppendAtEnd(content, template)
        ELSE InsertAtLineEnd(content, span_end,
                             StrConcat(TwoNewlines, template))

\* ------------------------------------------------------------------------
\* Insertion strategies for a design document
\* ------------------------------------------------------------------------

\* ------------------------------------------------------------------------
\* apply_requirements_improvements and apply_design_improvements
\* ------------------------------------------------------------------------

\* sort key: 0 if high, 1 if medium, 2 otherwise
PriorityRank(priority) ==
    IF priority = "high" THEN 0 ELSE IF priority = "medium" THEN 1 ELSE 2

\* Mutant of SortByPriority: the batch is attempted as handed over.
SortByPriorityNone(improvements_list) == improvements_list

\* sorted(improvements, key=rank): Python's sort is stable
SortByPriority(improvements_list) ==
    LET tier(r) == SelectSeq(improvements_list,
                             LAMBDA x : PriorityRank(x.priority) = r)
    IN  tier(0) \o tier(1) \o tier(2)

\* what the try block of either loop catches: the exception of a strategy
StrategyRaises(improvement) ==
    LET
        \* 'section_name in content' raises TypeError when section_name is None; the
        \* line is reached when the template exists (both add-section strategies)
        AddSectionRaises(improvement_) ==
            /\ GetTemplate(IF improvement_.template # "" THEN improvement_.template
                           ELSE improvement_.target_section) # EmptyStr
            /\ improvement_.target_section = NoneValue
    IN
    improvement.type = "add_section" /\ AddSectionRaises(improvement)

Strategy(kind, content, improvement, language) ==
    LET
        \* the dispatch on improvement.type.value; a type of another document kind
        \* matches no branch and leaves the content as it is
        RequirementsStrategy(content_, improvement_, language_) ==
            LET
                \* _add_section_to_requirements
                AddSectionToRequirements(content__, improvement__, language__) ==
                    LET
                        IntroductionSections == {"<6982><8ff0>", "Introduction", "Overview"}
                        \* line.startswith('# ')
                        StartsWithH1 ==
                            {"# Sample Project", "# <793a><4f8b><9879><76ee>", "# Sample Design",
                             "# <793a><4f8b><8bbe><8ba1>"}
                    IN
                    LET section_name == improvement__.target_section
                        template == GetTemplate(IF improvement__.template # ""
                                                THEN improvement__.template ELSE section_name)
                        title == FirstLineIn(content__, StartsWithH1, 1)
                    IN  IF template = EmptyStr THEN content__
                        ELSE IF AnyLineIn(content__, SectionLines(section_name, language__))
                             THEN content__
                        ELSE IF section_name \in IntroductionSections
                             \* lines.insert(insert_pos, '\n' + template); '\n'.join(lines)
                             THEN SubSeq(content__, 1, title) \o <<EmptyLine>> \o template
                                      \o SubSeq(content__, title + 1, Len(content__))
                        ELSE AppendAtEnd(content__, template)
                \* _add_nfr_section
                AddNfrSection(content__, improvement__, language__) ==
                    LET
                        \* _get_nfr_template
                        GetNfrTemplate(language___) ==
                            IF language___ = "zh" THEN
                                <<Ln("## 4. <975e><529f><80fd><9700><6c42>"), Ln(""),
                                  Ln("### 4.1 <6027><80fd><9700><6c42>"),
                                  Ln("- <7cfb><7edf><54cd><5e94><65f6><95f4><5e94><5c0f><4e8e> 2 <79d2>"),
                                  Ln("- <652f><6301><5e76><53d1><7528><6237><6570><4e0d><5c11><4e8e> 100"),
                                  Ln(""), Ln("### 4.2 <5b89><5168><9700><6c42>"),
                                  Ln("- <7528><6237><6570><636e><5fc5><987b><52a0><5bc6><5b58><50a8>"),
                                  Ln("- <5b9e><65bd><8bbf><95ee><63a7><5236><548c><8eab><4efd><9a8c><8bc1>"),
                                  Ln(""), Ln("### 4.3 <53ef><7528><6027><9700><6c42>"),
                                  Ln("- <7cfb><7edf><53ef><7528><6027><5e94><8fbe><5230> 99.9%"),
                                  Ln("- <63d0><4f9b><53cb><597d><7684><7528><6237><754c><9762>"),
                                  Ln(""), Ln("### 4.4 <53ef><7ef4><62a4><6027><9700><6c42>"),
                                  Ln("- <4ee3><7801><5e94><9075><5faa><7f16><7801><89c4><8303>"),
                                  Ln("- <63d0><4f9b><5b8c><6574><7684><6280><672f><6587><6863>"),
                                  Ln("")>>
                            ELSE
                                <<Ln("## Non-functional Requirements"), Ln(""),
                                  Ln("### Performance Requirements"),
                                  Ln("- System response time should be less than 2 seconds"),
                                  Ln("- Support at least 100 concurrent users"), Ln(""),
                                  Ln("### Security Requirements"),
                                  Ln("- User data must be encrypted at rest"),
                                  Ln("- Implement access control and authentication"), Ln(""),
                                  Ln("### Usability Requirements"),
                                  Ln("- System availability should reach 99.9%"),
                                  Ln("- Provide user-friendly interface"), Ln(""),
                                  Ln("### Maintainability Requirements"),
                                  Ln("- Code should follow coding standards"),
                                  Ln("- Provide complete technical documentation"), Ln("")>>
                        \* _append_to_nfr_section
                        AppendToNfrSection(content___, improvement___, language___) ==
                            LET missing_nfr == improvement___.missing_nfr
                                heading == FirstLineIn(content___, NfrHeadingPattern, 1)
                                next_section == FirstLineIn(content___, StartsWithH2, heading + 1)
                                insert_line == IF next_section # 0 THEN next_section - 1
                                                                   ELSE Len(content___)
                            IN  IF missing_nfr = <<>> THEN content___
                                ELSE IF heading = 0 THEN content___
                                ELSE InsertAtLineEnd(content___, insert_line,
                                         JoinNfrAdditions(FirstThree(missing_nfr), language___))
                    IN
                    IF AnyLineIn(content__, NfrHeadingLiteral)
                    THEN AppendToNfrSection(content__, improvement__, language__)
                    ELSE AppendAtEnd(content__, GetNfrTemplate(language__))
                \* _enhance_acceptance_criteria: the pattern needs the '\n' that ends the
                \* heading line, so the last line of the content_ cannot match.
                EnhanceAcceptanceCriteria(content__, improvement__, language__) ==
                    LET
                        \* example of _enhance_acceptance_criteria
                        CriteriaExample(language___) ==
                            IF language___ = "zh" THEN
                                <<Ln(""), Ln("**<9a8c><6536><6807><51c6>**:"),
                                  Ln("1. WHEN <7528><6237><6267><884c><64cd><4f5c> THEN <7cfb><7edf><5e94><8be5><8fd4><56de><9884><671f><7ed3><679c>"),
                                  Ln("2. WHEN <8f93><5165><65e0><6548><6570><636e> THEN <7cfb><7edf><5e94><8be5><663e><793a><9519><8bef><63d0><793a>"),
                                  Ln("")>>
                            ELSE
                                <<Ln(""), Ln("#### Acceptance Criteria"),
                                  Ln("1. WHEN the user performs an action THEN THE system SHALL return the expected result"),
                                  Ln("2. WHEN invalid data is provided THEN THE system SHALL display an error message"),
                                  Ln("")>>
                    IN
                    LET heading == FirstLineIn(SubSeq(content__, 1, Len(content__) - 1),
                                               RequirementHeading, 1)
                    IN  IF heading = 0 THEN content__
                        ELSE InsertAtLineStart(content__, heading + 1, CriteriaExample(language__))
                \* _add_error_handling_requirements
                AddErrorHandlingRequirements(content__, improvement__, language__) ==
                    LET
                        \* '## 3\. <529f><80fd><9700><6c42>'
                        FunctionalHeadingZh ==
                            {"## 3. <529f><80fd><9700><6c42>"}
                        \* '## (?:Functional )?Requirements'
                        FunctionalHeadingEn ==
                            {"## Requirements"}
                        \* _get_error_handling_template
                        GetErrorHandlingTemplate(language___) ==
                            IF language___ = "zh" THEN
                                <<Ln("### <9519><8bef><5904><7406><9700><6c42>"), Ln(""),
                                  Ln("**<7528><6237><6545><4e8b>**: <4f5c><4e3a><7528><6237><ff0c><6211><5e0c><671b><7cfb><7edf><80fd><591f><4f18><96c5><5730><5904><7406><9519><8bef><ff0c><4ee5><4fbf><6211><4e86><89e3><95ee><9898><5e76><91c7><53d6><76f8><5e94><63aa><65bd><3002>"),
                                  Ln(""), Ln("**<9a8c><6536><6807><51c6>**:"),
                                  Ln("1. WHEN <7cfb><7edf><9047><5230><9519><8bef> THEN <7cfb><7edf><5e94><8be5><663e><793a><6e05><6670><7684><9519><8bef><6d88><606f>"),
                                  Ln("2. WHEN <53d1><751f><5f02><5e38> THEN <7cfb><7edf><5e94><8be5><8bb0><5f55><9519><8bef><65e5><5fd7>"),
                                  Ln("3. WHEN <51fa><73b0><81f4><547d><9519><8bef> THEN <7cfb><7edf><5e94><8be5><5b89><5168><5173><95ed><5e76><4fdd><5b58><6570><636e>"),
                                  Ln("")>>
                            ELSE
                                <<Ln("### Error Handling Requirements"), Ln(""),
                                  Ln("**User Story**: As a user, I want the system to handle errors gracefully, so that I understand the issue and can take appropriate action."),
                                  Ln(""), Ln("**Acceptance Criteria**:"),
                                  Ln("1. WHEN the system encounters an error THEN THE system SHALL display a clear error message"),
                                  Ln("2. WHEN an exception occurs THEN THE system SHALL log the error"),
                                  Ln("3. WHEN a fatal error occurs THEN THE system SHALL shut down safely and save data"),
                                  Ln("")>>
                    IN
                    InsertAfterSpan(content__,
                        IF language__ = "zh" THEN FunctionalHeadingZh ELSE FunctionalHeadingEn,
                        StartsWithH2, GetErrorHandlingTemplate(language__))
                \* _add_edge_case_criteria
                AddEdgeCaseCriteria(content__, improvement__, language__) ==
                    LET
                        \* addition of _add_edge_case_criteria
                        EdgeCaseAddition(language___) ==
                            IF language___ = "zh" THEN
                                <<Ln(""),
                                  Ln("- WHEN <8f93><5165><4e3a><7a7a><503c> THEN <7cfb><7edf><5e94><8be5><5904><7406><7a7a><503c><60c5><51b5>"),
                                  Ln("- WHEN <8f93><5165><8fbe><5230><6700><5927><9650><5236> THEN <7cfb><7edf><5e94><8be5><6b63><786e><5904><7406><8fb9><754c><503c>")>>
                            ELSE
                                <<Ln(""),
                                  Ln("- WHEN input is empty THEN THE system SHALL handle empty values"),
                                  Ln("- WHEN input reaches maximum limit THEN THE system SHALL handle boundary values correctly")>>
                    IN
                    LET anchor == FirstLineIn(content__,
                                      IF language__ = "zh" THEN AcceptanceMarkerZh
                                                         ELSE AcceptanceMarkerEn, 1)
                        stop == FirstLineIn(content__, StartsWithH3 \cup StartsWithH2, anchor + 1)
                        span_end == IF stop # 0 THEN stop - 1 ELSE Len(content__)
                    IN  IF anchor = 0 THEN content__
                        ELSE InsertAtLineEnd(content__, span_end, EdgeCaseAddition(language__))
                \* _add_glossary_section
                AddGlossarySection(content__, improvement__, language__) ==
                    LET
                        \* '## (?:1\. )?<6982><8ff0>', re.IGNORECASE
                        IntroHeadingZh ==
                            {"## 1. <6982><8ff0>"}
                        \* '## (?:Introduction|Overview)', re.IGNORECASE
                        IntroHeadingEn ==
                            {"## Introduction", "## Overview"}
                        \* _get_glossary_template
                        GetGlossaryTemplate(language___) ==
                            IF language___ = "zh" THEN
                                <<Ln("## <672f><8bed><8868>"), Ln(""),
                                  Ln("- **<7cfb><7edf>**: <6307><672c><6587><6863><63cf><8ff0><7684><8f6f><4ef6><7cfb><7edf>"),
                                  Ln("- **<7528><6237>**: <4f7f><7528><7cfb><7edf><7684><6700><7ec8><7528><6237>"),
                                  Ln("- **<7ba1><7406><5458>**: <5177><6709><7cfb><7edf><7ba1><7406><6743><9650><7684><7528><6237>"),
                                  Ln("")>>
                            ELSE
                                <<Ln("## Glossary"), Ln(""),
                                  Ln("- **System**: The software system described in this document"),
                                  Ln("- **User**: End user who uses the system"),
                                  Ln("- **Administrator**: User with system administration privileges"),
                                  Ln("")>>
                    IN
                    InsertAfterSpan(content__,
                        IF language__ = "zh" THEN IntroHeadingZh ELSE IntroHeadingEn,
                        StartsWithH2, GetGlossaryTemplate(language__))
            IN
            IF improvement_.type = "add_section"
            THEN AddSectionToRequirements(content_, improvement_, language_)
            ELSE IF improvement_.type = "add_nfr"
            THEN AddNfrSection(content_, improvement_, language_)
            ELSE IF improvement_.type = "enhance_criteria"
            THEN EnhanceAcceptanceCriteria(content_, improvement_, language_)
            ELSE IF improvement_.type = "add_error_handling"
            THEN AddErrorHandlingRequirements(content_, improvement_, language_)
            ELSE IF improvement_.type = "add_edge_cases"
            THEN AddEdgeCaseCriteria(content_, improvement_, language_)
            ELSE IF improvement_.type = "add_glossary_term"
            THEN AddGlossarySection(content_, improvement_, language_)
            ELSE content_
        \* the dispatch of apply_design_improvements
        DesignStrategy(content_, improvement_, language_) ==
            LET
                \* _add_technology_stack
                AddTechnologyStack(content__, improvement__, language__) ==
                    LET
                        \* _get_technology_stack_template
                        GetTechnologyStackTemplate(language___) ==
                            IF language___ = "zh" THEN
                                <<Ln("## <6280><672f><9009><578b>"), Ln(""),
                                  Ln("### <6838><5fc3><6280><672f><6808>"),
                                  Ln("- **<524d><7aef>**: React/Vue.js"),
                                  Ln("- **<540e><7aef>**: Node.js/Python"),
                                  Ln("- **<6570><636e><5e93>**: PostgreSQL/MongoDB"),
                                  Ln("- **<7f13><5b58>**: Redis"), Ln(""),
                                  Ln("### <9009><578b><7406><7531>"),
                                  Ln("- <8003><8651><56e2><961f><6280><672f><6808><719f><6089><5ea6>"),
                                  Ln("- <6ee1><8db3><6027><80fd><548c><6269><5c55><6027><8981><6c42>"),
                                  Ln("- <793e><533a><652f><6301><548c><751f><6001><5b8c><5584>"),
                                  Ln("")>>
                            ELSE
                                <<Ln("## Technology Stack"), Ln(""), Ln("### Core Technologies"),
                                  Ln("- **Frontend**: React/Vue.js"),
                                  Ln("- **Backend**: Node.js/Python"),
                                  Ln("- **Database**: PostgreSQL/MongoDB"), Ln("- **Cache**: Redis"),
                                  Ln(""), Ln("### Selection Rationale"),
                                  Ln("- Team familiarity with technology stack"),
                                  Ln("- Meets performance and scalability requirements"),
                                  Ln("- Strong community support and ecosystem"), Ln("")>>
                    IN
                    AppendAtEnd(content__, GetTechnologyStackTemplate(language__))
                \* _add_correctness_properties
                AddCorrectnessProperties(content__, improvement__, language__) ==
                    LET
                        \* _get_correctness_properties_template
                        GetCorrectnessPropertiesTemplate(language___) ==
                            IF language___ = "zh" THEN
                                <<Ln("## <6b63><786e><6027><5c5e><6027>"), Ln(""),
                                  Ln("### <5c5e><6027> 1: <6570><636e><4e00><81f4><6027>"),
                                  Ln("*<5bf9><4e8e><4efb><4f55>*<6570><636e><64cd><4f5c><ff0c><64cd><4f5c><5b8c><6210><540e><6570><636e><5e94><4fdd><6301><4e00><81f4><72b6><6001><3002>"),
                                  Ln(""), Ln("**<9a8c><8bc1>**: Requirements 1.1, 1.2"), Ln(""),
                                  Ln("### <5c5e><6027> 2: <64cd><4f5c><5e42><7b49><6027>"),
                                  Ln("*<5bf9><4e8e><4efb><4f55>*<5e42><7b49><64cd><4f5c><ff0c><591a><6b21><6267><884c><5e94><4ea7><751f><76f8><540c><7ed3><679c><3002>"),
                                  Ln(""), Ln("**<9a8c><8bc1>**: Requirements 2.1"), Ln("")>>
                            ELSE
                                <<Ln("## Correctness Properties"), Ln(""),
                                  Ln("### Property 1: Data Consistency"),
                                  Ln("*For any* data operation, data should remain in a consistent state after the operation completes."),
                                  Ln(""), Ln("**Validates**: Requirements 1.1, 1.2"), Ln(""),
                                  Ln("### Property 2: Operation Idempotency"),
                                  Ln("*For any* idempotent operation, multiple executions should produce the same result."),
                                  Ln(""), Ln("**Validates**: Requirements 2.1"), Ln("")>>
                    IN
                    AppendAtEnd(content__, GetCorrectnessPropertiesTemplate(language__))
                \* _add_section_to_design
                AddSectionToDesign(content__, improvement__, language__) ==
                    LET section_name == improvement__.target_section
                        template == GetTemplate(IF improvement__.template # ""
                                                THEN improvement__.template ELSE section_name)
                    IN  IF template = EmptyStr THEN content__
                        ELSE IF AnyLineIn(content__, DesignSectionLines(section_name))
                             THEN content__
                        ELSE AppendAtEnd(content__, template)
                \* _add_architecture_diagram
                AddArchitectureDiagram(content__, improvement__, language__) ==
                    LET
                        \* '## (?:2\. )?<67b6><6784><8bbe><8ba1>', re.IGNORECASE
                        ArchitectureHeadingZh ==
                            {"## 2. <67b6><6784><8bbe><8ba1>"}
                        \* '## (?:System )?Architecture', re.IGNORECASE
                        ArchitectureHeadingEn ==
                            {"## Architecture", "### System Architecture",
                             "### Architecture Description", "### System Architecture Diagram"}
                        \* _get_architecture_diagram_template
                        GetArchitectureDiagramTemplate(language___) ==
                            IF language___ = "zh" THEN
                                <<Ln("### <7cfb><7edf><67b6><6784><56fe>"), Ln(""),
                                  Ln("<0060><0060><0060>mermaid"), Ln("graph TB"),
                                  Ln("    A[<7528><6237><754c><9762>] --> B[<4e1a><52a1><903b><8f91><5c42>]"),
                                  Ln("    B --> C[<6570><636e><8bbf><95ee><5c42>]"),
                                  Ln("    C --> D[<6570><636e><5b58><50a8>]"),
                                  Ln("<0060><0060><0060>"), Ln("")>>
                            ELSE
                                <<Ln("### System Architecture Diagram"), Ln(""),
                                  Ln("<0060><0060><0060>mermaid"), Ln("graph TB"),
                                  Ln("    A[User Interface] --> B[Business Logic Layer]"),
                                  Ln("    B --> C[Data Access Layer]"),
                                  Ln("    C --> D[Data Storage]"), Ln("<0060><0060><0060>"), Ln("")>>
                    IN
                    InsertAfterSpan(content__,
                        IF language__ = "zh" THEN ArchitectureHeadingZh
                                           ELSE ArchitectureHeadingEn,
                        StartsWithH3 \cup StartsWithH2,
                        GetArchitectureDiagramTemplate(language__))
                \* _add_component_details
                AddComponentDetails(content__, improvement__, language__) ==
                    LET
                        \* addition of _add_component_details
                        ComponentAddition(language___) ==
                            IF language___ = "zh" THEN
                                <<Ln(""), Ln(""), Ln("### 3.1 <6838><5fc3><7ec4><4ef6>"), Ln(""),
                                  Ln("**<804c><8d23>**: <5904><7406><6838><5fc3><4e1a><52a1><903b><8f91>"),
                                  Ln(""), Ln("**<63a5><53e3><5b9a><4e49>**:"),
                                  Ln("<0060><0060><0060>python"), Ln("class CoreComponent:"),
                                  Ln("    def process(self, data: dict) -> dict:"),
                                  Ln("        \"\"\"<5904><7406><6570><636e>\"\"\""),
                                  Ln("        pass"), Ln("<0060><0060><0060>"), Ln(""),
                                  Ln("**<4f9d><8d56>**: <65e0><5916><90e8><4f9d><8d56>"), Ln("")>>
                            ELSE
                                <<Ln(""), Ln(""), Ln("### 3.1 Core Component"), Ln(""),
                                  Ln("**Responsibility**: Handle core business logic"), Ln(""),
                                  Ln("**Interface Definition**:"), Ln("<0060><0060><0060>python"),
                                  Ln("class CoreComponent:"),
                                  Ln("    def process(self, data: dict) -> dict:"),
                                  Ln("        \"\"\"Process data\"\"\""), Ln("        pass"),
                                  Ln("<0060><0060><0060>"), Ln(""),
                                  Ln("**Dependencies**: No external dependencies"), Ln("")>>
                    IN
                    LET anchor == FirstLineIn(content__,
                                      IF language__ = "zh" THEN ComponentsHeadingZh
                                                         ELSE ComponentsHeadingEn, 1)
                        stop == FirstLineIn(content__, StartsWithH2, anchor + 1)
                        span_end == IF stop # 0 THEN stop - 1 ELSE Len(content__)
                    IN  IF anchor = 0 THEN content__
                        ELSE InsertAtLineEnd(content__, span_end, ComponentAddition(language__))
                \* _add_requirements_traceability (requirements_content is not read)
                AddRequirementsTraceability(content__, improvement__, language__) ==
                    LET
                        \* addition of _add_requirements_traceability
                        TraceabilityAddition ==
                            <<Ln(""), Ln("**Validates: Requirements 1.1, 1.2**"), Ln("")>>
                    IN
                    LET heading == FirstLineIn(SubSeq(content__, 1, Len(content__) - 1),
                                               ComponentHeading, 1)
                    IN  IF heading = 0 THEN content__
                        ELSE InsertAtLineStart(content__, heading + 1, TraceabilityAddition)
            IN
            IF improvement_.type = "add_section"
            THEN AddSectionToDesign(content_, improvement_, language_)
            ELSE IF improvement_.type = "add_diagram"
            THEN AddArchitectureDiagram(content_, improvement_, language_)
            ELSE IF improvement_.type = "add_rationale"
            THEN AddTechnologyStack(content_, improvement_, language_)
            ELSE IF improvement_.type = "add_component_detail"
            THEN AddComponentDetails(content_, improvement_, language_)
            ELSE IF improvement_.type = "add_traceability"
            THEN AddRequirementsTraceability(content_, improvement_, language_)
            ELSE IF improvement_.type = "add_properties"
            THEN AddCorrectnessProperties(content_, improvement_, language_)
            ELSE content_
    IN
    IF kind = "design" THEN DesignStrategy(content, improvement, language)
    ELSE RequirementsStrategy(content, improvement, language)

ModificationResult(content, applied_list, failed_list) ==
    [modified_content |-> content, applied_improvements |-> applied_list,
     failed_improvements |-> failed_list]

\* Mutant of ApplyOne: after an exception nothing more is attempted.
ApplyOneAborting(kind, acc, improvement, language) ==
    IF acc.failed_improvements # <<>> THEN acc
    ELSE IF StrategyRaises(improvement)
    THEN ModificationResult(acc.modified_content, acc.applied_improvements,
             Append(acc.failed_improvements, <<improvement, "TypeError">>))
    ELSE LET new_content == Strategy(kind, acc.modified_content,
                                     improvement, language)
         IN  IF new_content # acc.modified_content
             THEN ModificationResult(new_content,
                      Append(acc.applied_improvements, improvement),
                      acc.failed_improvements)
             ELSE acc

\* Mutant of ApplyOne: every strategy that returns counts as applied.
ApplyOneAlwaysApplied(kind, acc, improvement, language) ==
    IF StrategyRaises(improvement)
    THEN ModificationResult(acc.modified_content, acc.applied_improvements,
             Append(acc.failed_improvements, <<improvement, "TypeError">>))
    ELSE ModificationResult(Strategy(kind, acc.modified_content,
                                     improvement, language),
                            Append(acc.applied_improvements, improvement),
                            acc.failed_improvements)

\* one turn of the for loop: try the strategy; except Exception records
\* (improvement, e) and keeps modified_content; result != modified_content
\* decides whether the improvement counts as applied
ApplyOne(kind, acc, improvement, language) ==
    IF StrategyRaises(improvement)
    THEN ModificationResult(acc.modified_content, acc.applied_improvements,
             Append(acc.failed_improvements, <<improvement, "TypeError">>))
    ELSE LET new_content == Strategy(kind, acc.modified_content,
                                     improvement, language)
         IN  IF new_content # acc.modified_content
             THEN ModificationResult(new_content,
                      Append(acc.applied_improvements, improvement),
                      acc.failed_improvements)
             ELSE acc

\* the for loop: each turn works on the result of the turn before (a content
\* has at least one line; the test makes a turn complete before the next)
RECURSIVE ApplyEach(_, _, _, _)
ApplyEach(kind, acc, todo, language) ==
    IF todo = <<>> THEN acc
    ELSE LET turn == ApplyOne(kind, acc, Head(todo), language)
         IN  IF Len(turn.modified_content) > 0
             THEN ApplyEach(kind, turn, Tail(todo), language)
             ELSE turn

ApplyRequirementsImprovements(content, improvements_list, language) ==
    ApplyEach("requirements", ModificationResult(content, <<>>, <<>>),
              SortByPriority(improvements_list), language)

\* ------------------------------------------------------------------------
\* Improvements of a requirements document (improvement_identifier.py): the
\* fields the applicator reads.  template "" stands for None; missing_nfr is
\* metadata['missing_nfr'], <<>> when the metadata has no such key.
\* ------------------------------------------------------------------------
Improvement(type, target_section, priority, template, missing_nfr) ==
    [type |-> type, target_section |-> target_section, priority |-> priority,
     template |-> template, missing_nfr |-> missing_nfr]

\* nfr_keywords of the identifier, in its order
NfrKeywords(language) ==
    IF language = "zh"
    THEN <<"<6027><80fd>", "<5b89><5168>", "<53ef><7528><6027>", "<53ef><7ef4><62a4><6027>", "<517c><5bb9><6027>", "<53ef><6269><5c55><6027>">>
    ELSE <<"performance", "security", "usability", "maintainability", "scalability", "reliability">>

Documents(kind, language) ==
    LET
        \* the lines documents are written with: headings of every level (the
        \* non-functional heading in its accepted spellings), a requirement or a
        \* component, an acceptance marker, text (also with trailing blanks) and the
        \* empty line
        InputLines(kind_, language_) ==
            IF kind_ = "design"
            THEN IF language_ = "zh"
                 THEN {Ln("# <793a><4f8b><8bbe><8ba1>"),
                       Ln("## 1. <6982><8ff0>"),
                       Ln("## 2. <67b6><6784><8bbe><8ba1>"),
                       Ln("## 3. <7ec4><4ef6><8bbe><8ba1>"),
                       Ln("### 3.1 <89e3><6790><7ec4><4ef6>"),
                       Ln("<4e00><4e9b><6587><5b57>"),
                       Ln(""),
                       [text |-> "<4e00><4e9b><6587><5b57>", trail |-> MaxTrail]}
                 ELSE {Ln("# Sample Design"),
                       Ln("## Overview"),
                       Ln("## Architecture"),
                       Ln("## Components"),
                       Ln("### 3.1 Parser Component"),
                       Ln("Some text"),
                       Ln(""),
                       [text |-> "Some text", trail |-> MaxTrail]}
            ELSE IF language_ = "zh"
                 THEN {Ln("# <793a><4f8b><9879><76ee>"),
                       Ln("## 1. <6982><8ff0>"),
                       Ln("## 3. <529f><80fd><9700><6c42>"),
                       Ln("### 1.1 <7528><6237><767b><5f55>"),
                       Ln("**<9a8c><6536><6807><51c6>**:"),
                       Ln("## 4. <975e><529f><80fd><9700><6c42>"),
                       Ln("## <975e><529f><80fd><9700><6c42>"),
                       Ln("<4e00><4e9b><6587><5b57>"),
                       Ln(""),
                       [text |-> "<4e00><4e9b><6587><5b57>", trail |-> MaxTrail]}
                 ELSE {Ln("# Sample Project"),
                       Ln("## Introduction"),
                       Ln("## Requirements"),
                       Ln("### Requirement 1.1 Login"),
                       Ln("#### Acceptance Criteria"),
                       Ln("## Non-functional Requirements"),
                       Ln("## Non-Functional Requirements"),
                       Ln("Some text"),
                       Ln(""),
                       [text |-> "Some text", trail |-> MaxTrail]}
    IN
    UNION {[1..n -> InputLines(kind, language)] : n \in 1..MaxLines}

\* ------------------------------------------------------------------------
\* The applicator called on a document: apply_requirements_improvements or
\* apply_design_improvements with a content, a list of improvements and a
\* language (the calls of consecutive cycles are those of EnhanceSpec)
\* ------------------------------------------------------------------------

ApplyInit ==
    /\ EnhancerInit
    /\ quality_threshold = DefaultThreshold
    /\ max_iterations = 1
    /\ plateau_iterations = 1
    /\ min_score_improvement = DefaultMinImprovement
    /\ document_type = "requirements"
    /\ ap_kind \in DocumentTypes
    /\ ap_language \in {"en", "zh"}
    /\ ap_content \in Documents(ap_kind, ap_language)
    /\ ap_input = ap_content
    /\ ap_batch = <<>>
    /\ ap_result = ModificationResult(ap_content, <<>>, <<>>)
    /\ ap_cycles = 0
    /\ Unused({"enhancer", "applicator"})

Apply(kind, content, improvements_list, language) ==
    LET
        \* apply_design_improvements (requirements_content is only handed on)
        ApplyDesignImprovements(content_, improvements_list_, language_) ==
            ApplyEach("design", ModificationResult(content_, <<>>, <<>>),
                      SortByPriority(improvements_list_), language_)
    IN
    IF kind = "design"
    THEN ApplyDesignImprovements(content, improvements_list, language)
    ELSE ApplyRequirementsImprovements(content, improvements_list, language)

\* one call of the applicator on the document, with any list of improvements
ApplyBatch ==
    LET
        \* the lists of at most MaxBatch improvements a call can be handed: those of
        \* a caller first, then those of the identifier in its order
        Batches(kind, language) ==
            LET
                \* the improvements identify_requirements_improvements can emit, in the
                \* order of its checks, for a document that has none of the keywords: the
                \* zh branch hands over the whole list, the en branch missing_nfr[:3]
                RequirementsImprovements(language_) ==
                    LET missing == IF language_ = "zh" THEN NfrKeywords(language_)
                                   ELSE FirstThree(NfrKeywords(language_))
                    IN  IF language_ = "zh"
                        THEN <<Improvement("add_section", "<6982><8ff0>", "high", "introduction_zh", <<>>),
                               Improvement("add_section", "<7528><6237><6545><4e8b>", "high", "user_stories_zh", <<>>),
                               Improvement("add_section", "<529f><80fd><9700><6c42>", "high", "functional_requirements_zh", <<>>),
                               Improvement("add_nfr", "<975e><529f><80fd><9700><6c42>", "medium", "nfr_section_zh", <<>>),
                               Improvement("enhance_criteria", "<9a8c><6536><6807><51c6>", "high", "ears_criteria_zh", <<>>),
                               Improvement("add_nfr", "<975e><529f><80fd><9700><6c42>", "medium", "nfr_items_zh", missing),
                               Improvement("add_error_handling", "<529f><80fd><9700><6c42>", "medium", "error_handling_zh", <<>>),
                               Improvement("add_edge_cases", "<9a8c><6536><6807><51c6>", "medium", "edge_cases_zh", <<>>),
                               Improvement("add_section", "<7ea6><675f><6761><4ef6>", "low", "constraints_zh", <<>>)>>
                        ELSE <<Improvement("add_section", "Introduction", "high", "introduction_en", <<>>),
                               Improvement("add_glossary_term", "Glossary", "medium", "glossary_en", <<>>),
                               Improvement("add_section", "User Stories", "high", "user_stories_en", <<>>),
                               Improvement("add_section", "Requirements", "high", "functional_requirements_en", <<>>),
                               Improvement("enhance_criteria", "Acceptance Criteria", "high", "ears_criteria_en", <<>>),
                               Improvement("add_nfr", "Non-functional Requirements", "medium", "nfr_section_en", missing),
                               Improvement("add_error_handling", "Requirements", "medium", "error_handling_en", <<>>),
                               Improvement("add_edge_cases", "Acceptance Criteria", "medium", "edge_cases_en", <<>>),
                               Improvement("add_section", "Constraints", "low", "constraints_en", <<>>)>>
                \* the improvements identify_design_improvements can emit, in the order of
                \* its checks
                DesignImprovements(language_) ==
                    IF language_ = "zh"
                    THEN <<Improvement("add_section", "<7cfb><7edf><6982><8ff0>", "high", "overview_zh", <<>>),
                           Improvement("add_section", "<67b6><6784><8bbe><8ba1>", "high", "architecture_zh", <<>>),
                           Improvement("add_component_detail", "<7ec4><4ef6><8bbe><8ba1>", "high", "components_zh", <<>>),
                           Improvement("add_traceability", "<5168><6587>", "high", "traceability_zh", <<>>),
                           Improvement("add_traceability", "<7ec4><4ef6><8bbe><8ba1>", "high", "validates_annotation", <<>>),
                           Improvement("add_diagram", "<67b6><6784><8bbe><8ba1>", "medium", "mermaid_diagram_zh", <<>>),
                           Improvement("add_component_detail", "<7ec4><4ef6><8bbe><8ba1>", "medium", "", <<>>),
                           Improvement("add_component_detail", "<7ec4><4ef6><8bbe><8ba1>", "medium", "interface_definition", <<>>),
                           Improvement("add_rationale", "<6280><672f><9009><578b>", "medium", "technology_stack_zh", <<>>),
                           Improvement("add_section", "<9519><8bef><5904><7406>", "medium", "error_handling_design_zh", <<>>),
                           Improvement("add_component_detail", "<975e><529f><80fd><9700><6c42><8bbe><8ba1>", "medium", "nfr_design_zh",
                                       <<"<6027><80fd><8bbe><8ba1>", "<5b89><5168><8bbe><8ba1>", "<53ef><6269><5c55><6027>">>),
                           Improvement("add_properties", "<6b63><786e><6027><5c5e><6027>", "low", "correctness_properties_zh", <<>>)>>
                    ELSE <<Improvement("add_section", "Overview", "high", "overview_en", <<>>),
                           Improvement("add_section", "Architecture", "high", "architecture_en", <<>>),
                           Improvement("add_component_detail", "Components", "high", "components_en", <<>>),
                           Improvement("add_traceability", "<5168><6587>", "high", "traceability_en", <<>>),
                           Improvement("add_traceability", "Components", "high", "validates_annotation", <<>>),
                           Improvement("add_diagram", "Architecture", "medium", "mermaid_diagram_en", <<>>),
                           Improvement("add_component_detail", "Components", "medium", "", <<>>),
                           Improvement("add_component_detail", "Components", "medium", "interface_definition", <<>>),
                           Improvement("add_rationale", "Technology Stack", "medium", "technology_stack_en", <<>>),
                           Improvement("add_section", "Error Handling", "medium", "error_handling_design_en", <<>>),
                           Improvement("add_component_detail", "Non-functional Design", "medium", "nfr_design_en",
                                       <<"performance", "security", "scalability">>),
                           Improvement("add_properties", "Correctness Properties", "low", "correctness_properties_en", <<>>)>>
                \* an improvement a caller builds without a target section; its template
                \* exists
                CallerImprovements(kind_, language_) ==
                    <<Improvement("add_section", NoneValue, "medium",
                                  IF kind_ = "design"
                                  THEN (IF language_ = "zh" THEN "overview_zh" ELSE "overview_en")
                                  ELSE (IF language_ = "zh" THEN "introduction_zh"
                                                           ELSE "introduction_en"), <<>>)>>
            IN
            LET all == CallerImprovements(kind, language) \o
                       (IF kind = "design" THEN DesignImprovements(language)
                                           ELSE RequirementsImprovements(language))
                chosen == {S \in SUBSET {all[i] : i \in DOMAIN all} :
                              Cardinality(S) <= MaxBatch}
            IN  {SelectSeq(all, LAMBDA x : x \in S) : S \in chosen}
    IN
    /\ ap_cycles = 0
    /\ \E batch \in Batches(ap_kind, ap_language) :
           /\ ap_input' = ap_result.modified_content
           /\ ap_batch' = batch
           /\ ap_result' = Apply(ap_kind, ap_result.modified_content, batch,
                                 ap_language)
    /\ ap_cycles' = ap_cycles + 1
    /\ UNCHANGED <<ap_kind, ap_content, ap_language, ctl_vars, gate_vars, ev_vars, tk_vars, bk_vars, wt_vars, v2_vars>>

ApplyNext == ApplyBatch

ApplySpec == ApplyInit /\ [][ApplyNext]_vars

In(needle, content) ==
    LET
        \* ========================================================================
        \* Part 3: DocumentEvaluator (document_evaluator.py) and
        \* ImprovementIdentifier (improvement_identifier.py) on requirements
        \* documents, and one cycle of the enhancement loop on a real content
        \*
        \* The tests of the source on the content are made line by line: a needle
        \* without '\n' is in the content when it is in one of its lines, and the
        \* matches of a regular expression that count are counted along the lines.
        \* The tables are over the input lines and every line the applicator can
        \* insert.
        \* ========================================================================
        \* needle in content: the lines the needle is in
        LinesWith(needle_) ==
            IF needle_ = "## 1. <6982><8ff0>" THEN
                {"## 1. <6982><8ff0>"}
            ELSE IF needle_ = "## Introduction" THEN
                {"## Introduction"}
            ELSE IF needle_ = "## <6982><8ff0>" THEN{}
            ELSE IF needle_ = "## 2. <7528><6237><6545><4e8b>" THEN{}
            ELSE IF needle_ = "<7528><6237><6545><4e8b>" THEN
                {"**<7528><6237><6545><4e8b>**: <4f5c><4e3a><7528><6237><ff0c><6211><5e0c><671b><7cfb><7edf><80fd><591f><4f18><96c5><5730><5904><7406><9519><8bef><ff0c><4ee5><4fbf><6211><4e86><89e3><95ee><9898><5e76><91c7><53d6><76f8><5e94><63aa><65bd><3002>"}
            ELSE IF needle_ = "User Story" THEN
                {"**User Story**: As a user, I want the system to handle errors gracefully, so that I understand the issue and can take appropriate action."}
            ELSE IF needle_ = "## 3. <529f><80fd><9700><6c42>" THEN
                {"## 3. <529f><80fd><9700><6c42>"}
            ELSE IF needle_ = "<529f><80fd><9700><6c42>" THEN
                {"## 3. <529f><80fd><9700><6c42>",
                 "## 4. <975e><529f><80fd><9700><6c42>",
                 "## <975e><529f><80fd><9700><6c42>"}
            ELSE IF needle_ = "Functional Requirements" THEN
                {"## Non-Functional Requirements"}
            ELSE IF needle_ = "## 4. <975e><529f><80fd><9700><6c42>" THEN
                {"## 4. <975e><529f><80fd><9700><6c42>"}
            ELSE IF needle_ = "<975e><529f><80fd><9700><6c42>" THEN
                {"## 4. <975e><529f><80fd><9700><6c42>",
                 "## <975e><529f><80fd><9700><6c42>"}
            ELSE IF needle_ = "Non-functional" THEN
                {"## Non-functional Requirements"}
            ELSE IF needle_ = "Non-Functional" THEN
                {"## Non-Functional Requirements"}
            ELSE IF needle_ = "<7ea6><675f><6761><4ef6>" THEN{}
            ELSE IF needle_ = "<9650><5236>" THEN
                {"- WHEN <8f93><5165><8fbe><5230><6700><5927><9650><5236> THEN <7cfb><7edf><5e94><8be5><6b63><786e><5904><7406><8fb9><754c><503c>"}
            ELSE IF needle_ = "Constraints" THEN{}
            ELSE IF needle_ = "<9519><8bef><5904><7406>" THEN
                {"### <9519><8bef><5904><7406><9700><6c42>"}
            ELSE IF needle_ = "<5f02><5e38><5904><7406>" THEN{}
            ELSE IF needle_ = "## Overview" THEN
                {"## Overview"}
            ELSE IF needle_ = "## Glossary" THEN
                {"## Glossary"}
            ELSE IF needle_ = "## Terminology" THEN{}
            ELSE IF needle_ = "## Requirements" THEN
                {"## Requirements"}
            ELSE IF needle_ = "## Functional Requirements" THEN{}
            ELSE IF needle_ = "<6027><80fd>" THEN
                {"- <9ad8><6027><80fd><ff0c><6ee1><8db3><4e1a><52a1><9700><6c42>",
                 "### 4.1 <6027><80fd><9700><6c42>", "### <6027><80fd>",
                 "- <5f85><8865><5145><5177><4f53><6027><80fd><8981><6c42>",
                 "- <6ee1><8db3><6027><80fd><548c><6269><5c55><6027><8981><6c42>"}
            ELSE IF needle_ = "<5b89><5168>" THEN
                {"- <5b89><5168><53ef><9760><ff0c><4fdd><969c><6570><636e><5b89><5168>",
                 "### 4.2 <5b89><5168><9700><6c42>",
                 "3. WHEN <51fa><73b0><81f4><547d><9519><8bef> THEN <7cfb><7edf><5e94><8be5><5b89><5168><5173><95ed><5e76><4fdd><5b58><6570><636e>",
                 "### <5b89><5168>",
                 "- <5f85><8865><5145><5177><4f53><5b89><5168><8981><6c42>"}
            ELSE IF needle_ = "<53ef><7528><6027>" THEN
                {"### 4.3 <53ef><7528><6027><9700><6c42>",
                 "- <7cfb><7edf><53ef><7528><6027><5e94><8fbe><5230> 99.9%",
                 "### <53ef><7528><6027>",
                 "- <5f85><8865><5145><5177><4f53><53ef><7528><6027><8981><6c42>"}
            ELSE IF needle_ = "<53ef><7ef4><62a4><6027>" THEN
                {"### 4.4 <53ef><7ef4><62a4><6027><9700><6c42>",
                 "### <53ef><7ef4><62a4><6027>",
                 "- <5f85><8865><5145><5177><4f53><53ef><7ef4><62a4><6027><8981><6c42>"}
            ELSE IF needle_ = "<517c><5bb9><6027>" THEN
                {"### <517c><5bb9><6027>",
                 "- <5f85><8865><5145><5177><4f53><517c><5bb9><6027><8981><6c42>"}
            ELSE IF needle_ = "<53ef><6269><5c55><6027>" THEN
                {"### <53ef><6269><5c55><6027>",
                 "- <5f85><8865><5145><5177><4f53><53ef><6269><5c55><6027><8981><6c42>"}
            ELSE IF needle_ = "<8fb9><754c>" THEN
                {"- WHEN <8f93><5165><8fbe><5230><6700><5927><9650><5236> THEN <7cfb><7edf><5e94><8be5><6b63><786e><5904><7406><8fb9><754c><503c>"}
            ELSE IF needle_ = "<6781><9650>" THEN{}
            ELSE IF needle_ = "<6700><5927>" THEN
                {"- WHEN <8f93><5165><8fbe><5230><6700><5927><9650><5236> THEN <7cfb><7edf><5e94><8be5><6b63><786e><5904><7406><8fb9><754c><503c>"}
            ELSE IF needle_ = "<6700><5c0f>" THEN{}
            ELSE IF needle_ = "<7a7a><503c>" THEN
                {"- WHEN <8f93><5165><4e3a><7a7a><503c> THEN <7cfb><7edf><5e94><8be5><5904><7406><7a7a><503c><60c5><51b5>"}
            ELSE IF needle_ = "<5f02><5e38>" THEN
                {"2. WHEN <53d1><751f><5f02><5e38> THEN <7cfb><7edf><5e94><8be5><8bb0><5f55><9519><8bef><65e5><5fd7>"}
            ELSE {}
    IN
    AnyLineIn(content, LinesWith(needle))

InLower(needle, content) ==
    LET
        \* needle.lower() in content.lower(): the lines the needle is in, whatever
        \* the case
        LinesWithLower(needle_) ==
            IF needle_ = "user story" THEN
                {"**User Story**: As a user, I want the system to handle errors gracefully, so that I understand the issue and can take appropriate action."}
            ELSE IF needle_ = "performance" THEN
                {"- High performance to meet business requirements",
                 "### Performance Requirements",
                 "- Meets performance and scalability requirements"}
            ELSE IF needle_ = "security" THEN
                {"### Security Requirements"}
            ELSE IF needle_ = "usability" THEN
                {"### Usability Requirements"}
            ELSE IF needle_ = "maintainability" THEN
                {"### Maintainability Requirements"}
            ELSE IF needle_ = "compatibility" THEN{}
            ELSE IF needle_ = "scalability" THEN
                {"### Scalability Requirements",
                 "- Meets performance and scalability requirements"}
            ELSE IF needle_ = "reliability" THEN
                {"### Reliability Requirements"}
            ELSE IF needle_ = "constraint" THEN{}
            ELSE IF needle_ = "limitation" THEN{}
            ELSE IF needle_ = "error handling" THEN
                {"### Error Handling Requirements"}
            ELSE IF needle_ = "exception" THEN
                {"2. WHEN an exception occurs THEN THE system SHALL log the error"}
            ELSE IF needle_ = "boundary" THEN
                {"- WHEN input reaches maximum limit THEN THE system SHALL handle boundary values correctly"}
            ELSE IF needle_ = "edge case" THEN{}
            ELSE IF needle_ = "limit" THEN
                {"- WHEN input reaches maximum limit THEN THE system SHALL handle boundary values correctly"}
            ELSE IF needle_ = "maximum" THEN
                {"- WHEN input reaches maximum limit THEN THE system SHALL handle boundary values correctly"}
            ELSE IF needle_ = "minimum" THEN{}
            ELSE IF needle_ = "empty" THEN
                {"- WHEN input is empty THEN THE system SHALL handle empty values"}
            ELSE IF needle_ = "null" THEN{}
            ELSE {}
    IN
    AnyLineIn(content, LinesWithLower(needle))

\* len(re.findall(pattern, content)) for a pattern that matches inside one
\* line: the sum over the lines of the matches in the line
MatchesIn(matches, text) == IF text \in DOMAIN matches THEN matches[text] ELSE 0

RECURSIVE CountIn(_, _, _, _)
CountIn(matches, content, from, to) ==
    IF from > to THEN 0
    ELSE IF from = to THEN MatchesIn(matches, content[from].text)
    ELSE LET mid == (from + to) \div 2
         IN  CountIn(matches, content, from, mid)
             + CountIn(matches, content, mid + 1, to)

Count(matches, content) == CountIn(matches, content, 1, Len(content))

\* len(re.findall(pattern, content, re.DOTALL)) for a pattern
\* 'A.*?B' or 'A.*?B.*?C': the scan looks for A, then B (then C), whatever
\* lies between them, newlines included, counts a match and starts again.
\* state is the number of parts already found when a line starts; a table
\* gives, for a line and each state, the matches completed in the line and
\* the state at its end (a line not in the table changes nothing).
Scan(steps, text, state) ==
    IF text \in DOMAIN steps THEN steps[text][state + 1]
    ELSE [count |-> 0, state |-> state]

\* the scan of the lines from..to, started in state
RECURSIVE ScanLines(_, _, _, _, _)
ScanLines(steps, content, from, to, state) ==
    IF from > to THEN [count |-> 0, state |-> state]
    ELSE IF from = to THEN Scan(steps, content[from].text, state)
    ELSE LET mid == (from + to) \div 2
             first == ScanLines(steps, content, from, mid, state)
             second == ScanLines(steps, content, mid + 1, to, first.state)
         IN  [count |-> first.count + second.count, state |-> second.state]

CountLazy(steps, content) ==
    ScanLines(steps, content, 1, Len(content), 0).count

\* re.findall(r'[\\u4e00-\\u9fff]', content): the matches in a line
ChineseChars ==
    [t \in
        {"<5b57>"}
     |-> 1]
    @@
    [t \in
        {"## 1. <6982><8ff0>", "### <6027><80fd>", "### <5b89><5168>",
         "- **<524d><7aef>**: React/Vue.js",
         "- **<540e><7aef>**: Node.js/Python", "- **<7f13><5b58>**: Redis",
         "**<9a8c><8bc1>**: Requirements 1.1, 1.2",
         "**<9a8c><8bc1>**: Requirements 2.1"}
     |-> 2]
    @@
    [t \in
        {"## <672f><8bed><8868>", "### <53ef><7528><6027>",
         "### <517c><5bb9><6027>",
         "- **<6570><636e><5e93>**: PostgreSQL/MongoDB"}
     |-> 3]
    @@
    [t \in
        {"# <793a><4f8b><9879><76ee>", "## 3. <529f><80fd><9700><6c42>",
         "### 1.1 <7528><6237><767b><5f55>", "**<9a8c><6536><6807><51c6>**:",
         "<4e00><4e9b><6587><5b57>", "# <793a><4f8b><8bbe><8ba1>",
         "## 2. <67b6><6784><8bbe><8ba1>", "## 3. <7ec4><4ef6><8bbe><8ba1>",
         "### 3.1 <89e3><6790><7ec4><4ef6>",
         "### 1.1 <9879><76ee><80cc><666f>",
         "### 1.2 <9879><76ee><76ee><6807>",
         "## 1. <7cfb><7edf><6982><8ff0>",
         "### 1.1 <8bbe><8ba1><76ee><6807>",
         "### 1.2 <8bbe><8ba1><65b9><6cd5>",
         "### 2.1 <7cfb><7edf><67b6><6784>",
         "    C --> D[<6570><636e><5b58><50a8>]",
         "### 2.2 <67b6><6784><8bf4><660e>",
         "### 3.1 <7ec4><4ef6><6982><8ff0>",
         "### 4.1 <6027><80fd><9700><6c42>",
         "### 4.2 <5b89><5168><9700><6c42>", "### <53ef><7ef4><62a4><6027>",
         "### <53ef><6269><5c55><6027>", "## <6280><672f><9009><578b>",
         "### <9009><578b><7406><7531>", "### 3.1 <6838><5fc3><7ec4><4ef6>",
         "**<63a5><53e3><5b9a><4e49>**:",
         "        \"\"\"<5904><7406><6570><636e>\"\"\""}
     |-> 4]
    @@
    [t \in
        {"## 4. <975e><529f><80fd><9700><6c42>",
         "## <975e><529f><80fd><9700><6c42>",
         "    B --> C[<6570><636e><8bbf><95ee><5c42>]",
         "### 4.3 <53ef><7528><6027><9700><6c42>",
         "### <7cfb><7edf><67b6><6784><56fe>",
         "### <6838><5fc3><6280><672f><6808>",
         "## <6b63><786e><6027><5c5e><6027>"}
     |-> 5]
    @@
    [t \in
        {"- <7528><6237><7ba1><7406><7ec4><4ef6>",
         "- <6570><636e><5904><7406><7ec4><4ef6>",
         "- <63a5><53e3><670d><52a1><7ec4><4ef6>",
         "### 4.4 <53ef><7ef4><62a4><6027><9700><6c42>",
         "### <9519><8bef><5904><7406><9700><6c42>"}
     |-> 6]
    @@
    [t \in
        {"[<5f85><8865><5145><9879><76ee><76ee><6807>]",
         "### <5c5e><6027> 1: <6570><636e><4e00><81f4><6027>",
         "### <5c5e><6027> 2: <64cd><4f5c><5e42><7b49><6027>",
         "**<4f9d><8d56>**: <65e0><5916><90e8><4f9d><8d56>"}
     |-> 7]
    @@
    [t \in
        {"    A[<8868><793a><5c42>] --> B[<4e1a><52a1><903b><8f91><5c42>]",
         "- <7cfb><7edf><53ef><7528><6027><5e94><8fbe><5230> 99.9%"}
     |-> 8]
    @@
    [t \in
        {"[<5f85><8865><5145><9879><76ee><80cc><666f><4fe1><606f>]",
         "- <9ad8><6027><80fd><ff0c><6ee1><8db3><4e1a><52a1><9700><6c42>",
         "- <63d0><4f9b><53cb><597d><7684><7528><6237><754c><9762>",
         "- <4ee3><7801><5e94><9075><5faa><7f16><7801><89c4><8303>",
         "- <63d0><4f9b><5b8c><6574><7684><6280><672f><6587><6863>",
         "- <5f85><8865><5145><5177><4f53><6027><80fd><8981><6c42>",
         "- <5f85><8865><5145><5177><4f53><5b89><5168><8981><6c42>",
         "    A[<7528><6237><754c><9762>] --> B[<4e1a><52a1><903b><8f91><5c42>]",
         "- <793e><533a><652f><6301><548c><751f><6001><5b8c><5584>"}
     |-> 9]
    @@
    [t \in
        {"- <5b89><5168><53ef><9760><ff0c><4fdd><969c><6570><636e><5b89><5168>",
         "<7cfb><7edf><91c7><7528><4e09><5c42><67b6><6784><8bbe><8ba1><ff1a>",
         "<7cfb><7edf><5305><542b><4ee5><4e0b><6838><5fc3><7ec4><4ef6><ff1a>",
         "- <7cfb><7edf><54cd><5e94><65f6><95f4><5e94><5c0f><4e8e> 2 <79d2>",
         "- <652f><6301><5e76><53d1><7528><6237><6570><4e0d><5c11><4e8e> 100",
         "- <7528><6237><6570><636e><5fc5><987b><52a0><5bc6><5b58><50a8>",
         "- <5f85><8865><5145><5177><4f53><53ef><7528><6027><8981><6c42>",
         "- <5f85><8865><5145><5177><4f53><517c><5bb9><6027><8981><6c42>",
         "- <8003><8651><56e2><961f><6280><672f><6808><719f><6089><5ea6>",
         "- <6ee1><8db3><6027><80fd><548c><6269><5c55><6027><8981><6c42>",
         "**<804c><8d23>**: <5904><7406><6838><5fc3><4e1a><52a1><903b><8f91>"}
     |-> 10]
    @@
    [t \in
        {"- <5b9e><65bd><8bbf><95ee><63a7><5236><548c><8eab><4efd><9a8c><8bc1>",
         "- **<7528><6237>**: <4f7f><7528><7cfb><7edf><7684><6700><7ec8><7528><6237>",
         "- <5f85><8865><5145><5177><4f53><53ef><7ef4><62a4><6027><8981><6c42>",
         "- <5f85><8865><5145><5177><4f53><53ef><6269><5c55><6027><8981><6c42>"}
     |-> 11]
    @@
    [t \in
        {"- <6a21><5757><5316><8bbe><8ba1><ff0c><6613><4e8e><7ef4><62a4><548c><6269><5c55>",
         "- **<8868><793a><5c42>**: <8d1f><8d23><7528><6237><754c><9762><548c><4ea4><4e92>",
         "- **<6570><636e><8bbf><95ee><5c42>**: <5c01><88c5><6570><636e><5e93><64cd><4f5c>"}
     |-> 12]
    @@
    [t \in
        {"- **<4e1a><52a1><903b><8f91><5c42>**: <5904><7406><6838><5fc3><4e1a><52a1><903b><8f91>",
         "- **<7cfb><7edf>**: <6307><672c><6587><6863><63cf><8ff0><7684><8f6f><4ef6><7cfb><7edf>"}
     |-> 13]
    @@
    [t \in
        {"2. WHEN <53d1><751f><5f02><5e38> THEN <7cfb><7edf><5e94><8be5><8bb0><5f55><9519><8bef><65e5><5fd7>",
         "- **<7ba1><7406><5458>**: <5177><6709><7cfb><7edf><7ba1><7406><6743><9650><7684><7528><6237>"}
     |-> 14]
    @@
    [t \in
        {"<672c><6587><6863><63cf><8ff0><4e86><7cfb><7edf><7684><9700><6c42><89c4><683c><8bf4><660e><3002>",
         "- WHEN <8f93><5165><4e3a><7a7a><503c> THEN <7cfb><7edf><5e94><8be5><5904><7406><7a7a><503c><60c5><51b5>"}
     |-> 15]
    @@
    [t \in
        {"1. WHEN <7528><6237><6267><884c><64cd><4f5c> THEN <7cfb><7edf><5e94><8be5><8fd4><56de><9884><671f><7ed3><679c>",
         "2. WHEN <8f93><5165><65e0><6548><6570><636e> THEN <7cfb><7edf><5e94><8be5><663e><793a><9519><8bef><63d0><793a>"}
     |-> 16]
    @@
    [t \in
        {"<672c><8bbe><8ba1><6587><6863><63cf><8ff0><4e86><7cfb><7edf><7684><67b6><6784><548c><7ec4><4ef6><8bbe><8ba1><3002>"}
     |-> 18]
    @@
    [t \in
        {"1. WHEN <7cfb><7edf><9047><5230><9519><8bef> THEN <7cfb><7edf><5e94><8be5><663e><793a><6e05><6670><7684><9519><8bef><6d88><606f>",
         "3. WHEN <51fa><73b0><81f4><547d><9519><8bef> THEN <7cfb><7edf><5e94><8be5><5b89><5168><5173><95ed><5e76><4fdd><5b58><6570><636e>",
         "- WHEN <8f93><5165><8fbe><5230><6700><5927><9650><5236> THEN <7cfb><7edf><5e94><8be5><6b63><786e><5904><7406><8fb9><754c><503c>",
         "*<5bf9><4e8e><4efb><4f55>*<5e42><7b49><64cd><4f5c><ff0c><591a><6b21><6267><884c><5e94><4ea7><751f><76f8><540c><7ed3><679c><3002>"}
     |-> 19]
    @@
    [t \in
        {"*<5bf9><4e8e><4efb><4f55>*<6570><636e><64cd><4f5c><ff0c><64cd><4f5c><5b8c><6210><540e><6570><636e><5e94><4fdd><6301><4e00><81f4><72b6><6001><3002>"}
     |-> 22]
    @@
    [t \in
        {"<91c7><7528><5206><5c42><67b6><6784><ff0c><5c06><7cfb><7edf><5212><5206><4e3a><8868><793a><5c42><3001><4e1a><52a1><903b><8f91><5c42><548c><6570><636e><8bbf><95ee><5c42><3002>"}
     |-> 26]
    @@
    [t \in
        {"**<7528><6237><6545><4e8b>**: <4f5c><4e3a><7528><6237><ff0c><6211><5e0c><671b><7cfb><7edf><80fd><591f><4f18><96c5><5730><5904><7406><9519><8bef><ff0c><4ee5><4fbf><6211><4e86><89e3><95ee><9898><5e76><91c7><53d6><76f8><5e94><63aa><65bd><3002>"}
     |-> 36]
    @@
    [t \in
        {"<6587><6587><6587><6587><6587><6587><6587><6587><6587><6587><6587><6587><6587><6587><6587><6587><6587><6587><6587><6587><6587><6587><6587><6587><6587><6587><6587><6587><6587><6587><6587><6587><6587><6587><6587><6587><6587><6587><6587><6587><6587><6587><6587><6587><6587><6587><6587><6587><6587><6587><6587><6587><6587><6587><6587><6587><6587><6587><6587><6587><6587><6587><6587><6587><6587><6587><6587><6587><6587><6587><6587><6587><6587><6587><6587><6587><6587><6587><6587><6587><6587><6587><6587><6587><6587><6587><6587><6587><6587><6587><6587><6587><6587><6587><6587><6587><6587><6587><6587><6587>"}
     |-> 100]
    @@
    [t \in
        {"<6587><6587><6587><6587><6587><6587><6587><6587><6587><6587><6587><6587><6587><6587><6587><6587><6587><6587><6587><6587><6587><6587><6587><6587><6587><6587><6587><6587><6587><6587><6587><6587><6587><6587><6587><6587><6587><6587><6587><6587><6587><6587><6587><6587><6587><6587><6587><6587><6587><6587><6587><6587><6587><6587><6587><6587><6587><6587><6587><6587><6587><6587><6587><6587><6587><6587><6587><6587><6587><6587><6587><6587><6587><6587><6587><6587><6587><6587><6587><6587><6587><6587><6587><6587><6587><6587><6587><6587><6587><6587><6587><6587><6587><6587><6587><6587><6587><6587><6587><6587><6587>"}
     |-> 101]

\* re.findall(r'\b[a-zA-Z]+\b', content): the matches in a line
EnglishWords ==
    [t \in
        {"## Introduction", "## Requirements", "## Overview",
         "## Architecture", "## Components", "<0060><0060><0060>mermaid",
         "## Glossary", "<0060><0060><0060>python", "        pass",
         "- **<7f13><5b58>**: Redis",
         "**<9a8c><8bc1>**: Requirements 1.1, 1.2",
         "**<9a8c><8bc1>**: Requirements 2.1"}
     |-> 1]
    @@
    [t \in
        {"# Sample Project", "### Requirement 1.1 Login",
         "#### Acceptance Criteria", "Some text", "# Sample Design",
         "### 3.1 Parser Component", "### Project Background",
         "### Project Goals", "### Design Goals", "### Design Approach",
         "graph TB",
         "    A[<8868><793a><5c42>] --> B[<4e1a><52a1><903b><8f91><5c42>]",
         "    B --> C[<6570><636e><8bbf><95ee><5c42>]",
         "    C --> D[<6570><636e><5b58><50a8>]", "### System Architecture",
         "### Architecture Description", "### Component Overview",
         "### Performance Requirements", "### Security Requirements",
         "### Usability Requirements", "### Maintainability Requirements",
         "**Acceptance Criteria**:", "### Scalability Requirements",
         "### Reliability Requirements", "## Technology Stack",
         "### Core Technologies", "- **Cache**: Redis",
         "### Selection Rationale", "## Correctness Properties",
         "**Validates**: Requirements 1.1, 1.2",
         "**Validates**: Requirements 2.1", "### 3.1 Core Component",
         "**Interface Definition**:", "class CoreComponent:",
         "        \"\"\"Process data\"\"\"",
         "1. WHEN <7cfb><7edf><9047><5230><9519><8bef> THEN <7cfb><7edf><5e94><8be5><663e><793a><6e05><6670><7684><9519><8bef><6d88><606f>",
         "2. WHEN <53d1><751f><5f02><5e38> THEN <7cfb><7edf><5e94><8be5><8bb0><5f55><9519><8bef><65e5><5fd7>",
         "3. WHEN <51fa><73b0><81f4><547d><9519><8bef> THEN <7cfb><7edf><5e94><8be5><5b89><5168><5173><95ed><5e76><4fdd><5b58><6570><636e>",
         "1. WHEN <7528><6237><6267><884c><64cd><4f5c> THEN <7cfb><7edf><5e94><8be5><8fd4><56de><9884><671f><7ed3><679c>",
         "2. WHEN <8f93><5165><65e0><6548><6570><636e> THEN <7cfb><7edf><5e94><8be5><663e><793a><9519><8bef><63d0><793a>",
         "- WHEN <8f93><5165><4e3a><7a7a><503c> THEN <7cfb><7edf><5e94><8be5><5904><7406><7a7a><503c><60c5><51b5>",
         "- WHEN <8f93><5165><8fbe><5230><6700><5927><9650><5236> THEN <7cfb><7edf><5e94><8be5><6b63><786e><5904><7406><8fb9><754c><503c>",
         "    A[<7528><6237><754c><9762>] --> B[<4e1a><52a1><903b><8f91><5c42>]",
         "- **<6570><636e><5e93>**: PostgreSQL/MongoDB",
         "**Validates: Requirements 1.1, 1.2**"}
     |-> 2]
    @@
    [t \in
        {"## Non-functional Requirements", "## Non-Functional Requirements",
         "- User Management Component", "- Data Processing Component",
         "- Interface Service Component", "### Error Handling Requirements",
         "- To be specified", "### System Architecture Diagram",
         "- **Database**: PostgreSQL/MongoDB",
         "### Property 1: Data Consistency",
         "### Property 2: Operation Idempotency",
         "- **<524d><7aef>**: React/Vue.js",
         "- **<540e><7aef>**: Node.js/Python", "one two three"}
     |-> 3]
    @@
    [t \in
        {"    C --> D[Data Storage]",
         "- System availability should reach 99.9%",
         "- Provide user-friendly interface",
         "- Provide complete technical documentation",
         "- **Frontend**: React/Vue.js", "- **Backend**: Node.js/Python",
         "**Dependencies**: No external dependencies", "one two three four"}
     |-> 4]
    @@
    [t \in
        {"    B --> C[Data Access Layer]",
         "- Support at least 100 concurrent users",
         "- Implement access control and authentication",
         "- Code should follow coding standards",
         "- Team familiarity with technology stack",
         "- Meets performance and scalability requirements",
         "- Strong community support and ecosystem",
         "**Responsibility**: Handle core business logic"}
     |-> 5]
    @@
    [t \in
        {"[To be filled with project goals]",
         "- High performance to meet business requirements",
         "- **Data Access Layer**: Encapsulates database operations",
         "- **Administrator**: User with system administration privileges",
         "    def process(self, data: dict) -> dict:"}
     |-> 6]
    @@
    [t \in
        {"This document describes the system requirements specification.",
         "[To be filled with project background information]",
         "- Modular design for easy maintenance and extension",
         "- Secure and reliable to ensure data safety",
         "The system adopts a three-tier architecture:",
         "    A[Presentation Layer] --> B[Business Logic Layer]",
         "- **Presentation Layer**: Handles user interface and interaction",
         "- **Business Logic Layer**: Processes core business logic",
         "The system includes the following core components:",
         "- User data must be encrypted at rest",
         "- **User**: End user who uses the system",
         "    A[User Interface] --> B[Business Logic Layer]"}
     |-> 7]
    @@
    [t \in
        {"- System response time should be less than 2 seconds",
         "- **System**: The software system described in this document"}
     |-> 8]
    @@
    [t \in
        {"This design document describes the system architecture and component design."}
     |-> 10]
    @@
    [t \in
        {"2. WHEN an exception occurs THEN THE system SHALL log the error",
         "- WHEN input is empty THEN THE system SHALL handle empty values",
         "*For any* idempotent operation, multiple executions should produce the same result."}
     |-> 11]
    @@
    [t \in
        {"2. WHEN invalid data is provided THEN THE system SHALL display an error message",
         "- WHEN input reaches maximum limit THEN THE system SHALL handle boundary values correctly"}
     |-> 13]
    @@
    [t \in
        {"1. WHEN the user performs an action THEN THE system SHALL return the expected result"}
     |-> 14]
    @@
    [t \in
        {"1. WHEN the system encounters an error THEN THE system SHALL display a clear error message",
         "3. WHEN a fatal error occurs THEN THE system SHALL shut down safely and save data",
         "*For any* data operation, data should remain in a consistent state after the operation completes."}
     |-> 15]
    @@
    [t \in
        {"Adopts layered architecture, dividing the system into presentation layer, business logic layer, and data access layer."}
     |-> 16]
    @@
    [t \in
        {"**User Story**: As a user, I want the system to handle errors gracefully, so that I understand the issue and can take appropriate action."}
     |-> 24]
    @@
    [t \in
        {"word word word word word word word word word word word word word word word word word word word word word word word word word word word word word word word word word word word word word word word word word word word word word word word word word word word word word word word word word word word word word word word word word word word word word word word word word word word word word word word word word word word word word word word word word word word word word word word word word word word word word word word word word word word word word word word word word word word word word word word word word word word word word word word word word word word word word word word word word word word word word word word word word word word word word word word word word word word word word word word word word word word word word word word word word word word word word word word word word word word word word word word word word word word word word word word word word word word word word word word word word word word word word word word word word word word word word word word word word word word word word word word word word word word word word word word word word word word word word word word word word word word word word word word word word word word word word word word word word word word word word word word word word word word word word word word word word word word word word word word word word word word word word word word word word word word word word word word word word word word word word word word word word word word word word word"}
     |-> 310]

\* r'(?:\*\*<9a8c><6536><6807><51c6>\*\*:|Acceptance Criteria)', re.IGNORECASE
AcceptanceCriteriaZh ==
    [t \in
        {"#### Acceptance Criteria", "**<9a8c><6536><6807><51c6>**:",
         "**Acceptance Criteria**:"}
     |-> 1]

\* r'(?:Acceptance Criteria|#### Acceptance Criteria)', re.IGNORECASE
AcceptanceCriteriaEn ==
    [t \in
        {"#### Acceptance Criteria", "**Acceptance Criteria**:"}
     |-> 1]

\* r'### \d+\.\d+'
RequirementsCountZh ==
    [t \in
        {"### 1.1 <7528><6237><767b><5f55>", "### 3.1 Parser Component",
         "### 3.1 <89e3><6790><7ec4><4ef6>",
         "### 1.1 <9879><76ee><80cc><666f>",
         "### 1.2 <9879><76ee><76ee><6807>",
         "### 1.1 <8bbe><8ba1><76ee><6807>",
         "### 1.2 <8bbe><8ba1><65b9><6cd5>",
         "### 2.1 <7cfb><7edf><67b6><6784>",
         "### 2.2 <67b6><6784><8bf4><660e>",
         "### 3.1 <7ec4><4ef6><6982><8ff0>", "### 3.1 Core Component",
         "### 4.1 <6027><80fd><9700><6c42>",
         "### 4.2 <5b89><5168><9700><6c42>",
         "### 4.3 <53ef><7528><6027><9700><6c42>",
         "### 4.4 <53ef><7ef4><62a4><6027><9700><6c42>",
         "### 3.1 <6838><5fc3><7ec4><4ef6>"}
     |-> 1]

\* r'### Requirement \d+', re.IGNORECASE
RequirementsCountEn ==
    [t \in
        {"### Requirement 1.1 Login"}
     |-> 1]

\* r'(?:WHEN|<5f53>|<5982><679c>).*?(?:THEN|<90a3><4e48>|<5219>).*?(?:SHALL|<5e94><8be5>|<5fc5><987b>)', re.IGNORECASE | re.DOTALL
EarsPatternsZh ==
    [t \in
        {"- Implement access control and authentication"}
     |-> <<[count |-> 0, state |-> 0], [count |-> 0, state |-> 2], [count |-> 0, state |-> 2]>>]
    @@
    [t \in
        {"1. WHEN the system encounters an error THEN THE system SHALL display a clear error message",
         "2. WHEN an exception occurs THEN THE system SHALL log the error",
         "3. WHEN a fatal error occurs THEN THE system SHALL shut down safely and save data",
         "1. WHEN the user performs an action THEN THE system SHALL return the expected result",
         "2. WHEN invalid data is provided THEN THE system SHALL display an error message",
         "- WHEN input is empty THEN THE system SHALL handle empty values",
         "- WHEN input reaches maximum limit THEN THE system SHALL handle boundary values correctly",
         "1. WHEN <7cfb><7edf><9047><5230><9519><8bef> THEN <7cfb><7edf><5e94><8be5><663e><793a><6e05><6670><7684><9519><8bef><6d88><606f>",
         "2. WHEN <53d1><751f><5f02><5e38> THEN <7cfb><7edf><5e94><8be5><8bb0><5f55><9519><8bef><65e5><5fd7>",
         "3. WHEN <51fa><73b0><81f4><547d><9519><8bef> THEN <7cfb><7edf><5e94><8be5><5b89><5168><5173><95ed><5e76><4fdd><5b58><6570><636e>",
         "1. WHEN <7528><6237><6267><884c><64cd><4f5c> THEN <7cfb><7edf><5e94><8be5><8fd4><56de><9884><671f><7ed3><679c>",
         "2. WHEN <8f93><5165><65e0><6548><6570><636e> THEN <7cfb><7edf><5e94><8be5><663e><793a><9519><8bef><63d0><793a>",
         "- WHEN <8f93><5165><4e3a><7a7a><503c> THEN <7cfb><7edf><5e94><8be5><5904><7406><7a7a><503c><60c5><51b5>",
         "- WHEN <8f93><5165><8fbe><5230><6700><5927><9650><5236> THEN <7cfb><7edf><5e94><8be5><6b63><786e><5904><7406><8fb9><754c><503c>"}
     |-> <<[count |-> 1, state |-> 0], [count |-> 1, state |-> 0], [count |-> 1, state |-> 0]>>]
    @@
    [t \in
        {"- <7528><6237><6570><636e><5fc5><987b><52a0><5bc6><5b58><50a8>"}
     |-> <<[count |-> 0, state |-> 0], [count |-> 0, state |-> 1], [count |-> 1, state |-> 0]>>]

\* r'(?:WHEN|IF|WHILE|WHERE).*?(?:THEN|THE\s+system\s+SHALL)', re.IGNORECASE | re.DOTALL
EarsPatternsEn ==
    [t \in
        {"This document describes the system requirements specification.",
         "- To be specified"}
     |-> <<[count |-> 0, state |-> 1], [count |-> 0, state |-> 1]>>]
    @@
    [t \in
        {"- Implement access control and authentication"}
     |-> <<[count |-> 0, state |-> 0], [count |-> 1, state |-> 0]>>]
    @@
    [t \in
        {"1. WHEN the system encounters an error THEN THE system SHALL display a clear error message",
         "2. WHEN an exception occurs THEN THE system SHALL log the error",
         "3. WHEN a fatal error occurs THEN THE system SHALL shut down safely and save data",
         "1. WHEN the user performs an action THEN THE system SHALL return the expected result",
         "2. WHEN invalid data is provided THEN THE system SHALL display an error message",
         "- WHEN input is empty THEN THE system SHALL handle empty values",
         "- WHEN input reaches maximum limit THEN THE system SHALL handle boundary values correctly",
         "1. WHEN <7cfb><7edf><9047><5230><9519><8bef> THEN <7cfb><7edf><5e94><8be5><663e><793a><6e05><6670><7684><9519><8bef><6d88><606f>",
         "2. WHEN <53d1><751f><5f02><5e38> THEN <7cfb><7edf><5e94><8be5><8bb0><5f55><9519><8bef><65e5><5fd7>",
         "3. WHEN <51fa><73b0><81f4><547d><9519><8bef> THEN <7cfb><7edf><5e94><8be5><5b89><5168><5173><95ed><5e76><4fdd><5b58><6570><636e>",
         "1. WHEN <7528><6237><6267><884c><64cd><4f5c> THEN <7cfb><7edf><5e94><8be5><8fd4><56de><9884><671f><7ed3><679c>",
         "2. WHEN <8f93><5165><65e0><6548><6570><636e> THEN <7cfb><7edf><5e94><8be5><663e><793a><9519><8bef><63d0><793a>",
         "- WHEN <8f93><5165><4e3a><7a7a><503c> THEN <7cfb><7edf><5e94><8be5><5904><7406><7a7a><503c><60c5><51b5>",
         "- WHEN <8f93><5165><8fbe><5230><6700><5927><9650><5236> THEN <7cfb><7edf><5e94><8be5><6b63><786e><5904><7406><8fb9><754c><503c>"}
     |-> <<[count |-> 1, state |-> 0], [count |-> 1, state |-> 0]>>]

\* r'(?:<4f5c><4e3a>|As a).*?(?:<6211><5e0c><671b>|I want).*?(?:<4ee5><4fbf>|So that)', re.IGNORECASE | re.DOTALL
UserStoryPatternsZh ==
    [t \in
        {"**User Story**: As a user, I want the system to handle errors gracefully, so that I understand the issue and can take appropriate action.",
         "**<7528><6237><6545><4e8b>**: <4f5c><4e3a><7528><6237><ff0c><6211><5e0c><671b><7cfb><7edf><80fd><591f><4f18><96c5><5730><5904><7406><9519><8bef><ff0c><4ee5><4fbf><6211><4e86><89e3><95ee><9898><5e76><91c7><53d6><76f8><5e94><63aa><65bd><3002>"}
     |-> <<[count |-> 1, state |-> 0], [count |-> 1, state |-> 0], [count |-> 1, state |-> 0]>>]

\* r'(?:As a|As an).*?I want.*?(?:So that|so that)', re.IGNORECASE | re.DOTALL
UserStoryPatternsEn ==
    [t \in
        {"**User Story**: As a user, I want the system to handle errors gracefully, so that I understand the issue and can take appropriate action."}
     |-> <<[count |-> 1, state |-> 0], [count |-> 1, state |-> 0], [count |-> 1, state |-> 0]>>]

\* Mutant of DetectLanguage: the ratio of words is looked at first.
DetectLanguageWordsFirst(content) ==
    LET chinese_chars == Count(ChineseChars, content)
        english_words == Count(EnglishWords, content)
    IN  IF english_words > chinese_chars * 3 THEN "en"
        ELSE "zh"

\* _detect_language
DetectLanguage(content) ==
    LET chinese_chars == Count(ChineseChars, content)
        english_words == Count(EnglishWords, content)
    IN  IF chinese_chars > 100 THEN "zh"
        ELSE IF english_words > chinese_chars * 3 THEN "en"
        ELSE "zh"

\* ------------------------------------------------------------------------
\* Scores.  A score is the exact fraction num / den of the value the source
\* computes in floating point (den is 100, or 100 * requirements_count for
\* the acceptance ratio and the sums it enters).
\* ------------------------------------------------------------------------
Rat(num, den) == [num |-> num, den |-> den]
Hundredths(n) == Rat(n, 100)

RatAdd(a, b) ==
    IF a.den % b.den = 0 THEN Rat(a.num + b.num * (a.den \div b.den), a.den)
    ELSE IF b.den % a.den = 0
    THEN Rat(a.num * (b.den \div a.den) + b.num, b.den)
    ELSE Rat(a.num * b.den + b.num * a.den, a.den * b.den)

RatLess(a, b) == a.num * b.den < b.num * a.den
RatMin(a, b) == IF RatLess(b, a) THEN b ELSE a

\* sum(1 for keyword in keywords if keyword in content)
RECURSIVE Coverage(_, _, _)
Coverage(keywords, content, lower) ==
    IF keywords = <<>> THEN 0
    ELSE (IF (IF lower THEN InLower(Head(keywords), content)
                       ELSE In(Head(keywords), content)) THEN 1 ELSE 0)
         + Coverage(Tail(keywords), content, lower)

\* nfr_keywords of assess_requirements_quality
EvaluatorNfrKeywords(language) ==
    IF language = "zh"
    THEN <<"<6027><80fd>", "<5b89><5168>", "<53ef><7528><6027>", "<53ef><7ef4><62a4><6027>", "<517c><5bb9><6027>", "<53ef><6269><5c55><6027>">>
    ELSE <<"performance", "security", "usability", "maintainability", "compatibility", "scalability", "reliability">>

\* acceptance_score: the ratio of criteria to requirements when there are
\* requirements, a score per criterion otherwise
AcceptanceScore(acceptance_criteria, requirements_count, each) ==
    IF requirements_count > 0
    THEN RatMin(Rat(200 * acceptance_criteria, 100 * requirements_count),
                Hundredths(200))
    ELSE RatMin(Hundredths(acceptance_criteria * each), Hundredths(200))

Entry(missing, name) == IF missing THEN <<name>> ELSE <<>>

QualityAssessment(criteria_scores, missing_sections, language) ==
    [score |-> RatMin(RatAdd(RatAdd(RatAdd(RatAdd(RatAdd(
                   criteria_scores.structure, criteria_scores.ears_format),
                   criteria_scores.user_stories),
                   criteria_scores.acceptance_criteria),
                   criteria_scores.nfr_coverage),
                   criteria_scores.constraints), Hundredths(1000)),
     criteria_scores |-> criteria_scores,
     missing_sections |-> missing_sections,
     language |-> language]

StructureScore(has) ==
    Hundredths(50 * Cardinality({i \in DOMAIN has : has[i]}))

\* assess_requirements_quality(content, language): language or
\* self._detect_language(content); NoneValue stands for no language given
AssessRequirementsQuality(content, language) ==
    LET
        \* the zh branch of assess_requirements_quality
        AssessRequirementsZh(content_) ==
            LET has_intro == In("## 1. <6982><8ff0>", content_) \/ In("## Introduction", content_)
                                \/ In("## <6982><8ff0>", content_)
                has_stories == In("## 2. <7528><6237><6545><4e8b>", content_) \/ In("<7528><6237><6545><4e8b>", content_)
                                  \/ In("User Story", content_)
                has_functional == In("## 3. <529f><80fd><9700><6c42>", content_) \/ In("<529f><80fd><9700><6c42>", content_)
                                     \/ In("Functional Requirements", content_)
                has_nfr == In("## 4. <975e><529f><80fd><9700><6c42>", content_) \/ In("<975e><529f><80fd><9700><6c42>", content_)
                              \/ In("Non-functional", content_)
                has_constraints == In("<7ea6><675f><6761><4ef6>", content_) \/ In("<9650><5236>", content_)
                                      \/ In("Constraints", content_)
                ears_patterns == CountLazy(EarsPatternsZh, content_)
                user_story_patterns == CountLazy(UserStoryPatternsZh, content_)
                acceptance_criteria == Count(AcceptanceCriteriaZh, content_)
                requirements_count == Count(RequirementsCountZh, content_)
                nfr_coverage == Coverage(EvaluatorNfrKeywords("zh"), content_, FALSE)
            IN  QualityAssessment(
                    [structure |-> StructureScore(<<has_intro, has_stories,
                                                    has_functional, has_nfr>>),
                     ears_format |-> RatMin(Hundredths(ears_patterns * 15),
                                            Hundredths(200)),
                     user_stories |-> RatMin(Hundredths(user_story_patterns * 25),
                                             Hundredths(200)),
                     acceptance_criteria |-> AcceptanceScore(acceptance_criteria,
                                                             requirements_count, 30),
                     nfr_coverage |-> RatMin(Hundredths(nfr_coverage * 17),
                                             Hundredths(100)),
                     constraints |-> IF has_constraints THEN Hundredths(100)
                                     ELSE Hundredths(0)],
                    Entry(~has_intro, "<6982><8ff0>/Introduction") \o Entry(~has_stories, "<7528><6237><6545><4e8b>")
                        \o Entry(~has_functional, "<529f><80fd><9700><6c42>") \o Entry(~has_nfr, "<975e><529f><80fd><9700><6c42>")
                        \o Entry(~has_constraints, "<7ea6><675f><6761><4ef6>"),
                    "zh")
        \* the en branch of assess_requirements_quality
        AssessRequirementsEn(content_) ==
            LET has_intro == In("## Introduction", content_) \/ In("## Overview", content_)
                has_glossary == In("## Glossary", content_) \/ In("## Terminology", content_)
                has_requirements == In("## Requirements", content_)
                                       \/ In("## Functional Requirements", content_)
                has_nfr == In("Non-functional", content_) \/ In("Non-Functional", content_)
                has_constraints == InLower("constraint", content_)
                                      \/ InLower("limitation", content_)
                ears_patterns == CountLazy(EarsPatternsEn, content_)
                user_story_patterns == CountLazy(UserStoryPatternsEn, content_)
                acceptance_criteria == Count(AcceptanceCriteriaEn, content_)
                requirements_count == Count(RequirementsCountEn, content_)
                nfr_coverage == Coverage(EvaluatorNfrKeywords("en"), content_, TRUE)
            IN  QualityAssessment(
                    [structure |-> StructureScore(<<has_intro, has_glossary,
                                                    has_requirements, has_nfr>>),
                     ears_format |-> RatMin(Hundredths(ears_patterns * 12),
                                            Hundredths(200)),
                     user_stories |-> RatMin(Hundredths(user_story_patterns * 20),
                                             Hundredths(200)),
                     acceptance_criteria |-> AcceptanceScore(acceptance_criteria,
                                                             requirements_count, 25),
                     nfr_coverage |-> RatMin(Hundredths(nfr_coverage * 14),
                                             Hundredths(100)),
                     constraints |-> IF has_constraints THEN Hundredths(100)
                                     ELSE Hundredths(0)],
                    Entry(~has_intro, "Introduction/Overview") \o Entry(~has_glossary, "Glossary")
                        \o Entry(~has_requirements, "Requirements")
                        \o Entry(~has_nfr, "Non-functional Requirements")
                        \o Entry(~has_constraints, "Constraints"),
                    "en")
    IN
    LET lang == IF language = NoneValue THEN DetectLanguage(content)
                ELSE language
    IN  IF lang = "zh" THEN AssessRequirementsZh(content)
        ELSE AssessRequirementsEn(content)

\* ------------------------------------------------------------------------
\* identify_requirements_improvements(content, assessment)
\* ------------------------------------------------------------------------

\* lang = assessment.language is all the method reads of the assessment
IdentifyRequirementsImprovements(content, assessment) ==
    LET
        EdgeCaseKeywords(language) ==
            IF language = "zh"
            THEN <<"<8fb9><754c>", "<6781><9650>", "<6700><5927>", "<6700><5c0f>", "<7a7a><503c>", "<5f02><5e38>">>
            ELSE <<"boundary", "edge case", "limit", "maximum", "minimum", "empty", "null">>
        \* [kw for kw in nfr_keywords if kw not in content]
        MissingNfr(content_, language) ==
            SelectSeq(NfrKeywords(language),
                      LAMBDA kw : IF language = "zh" THEN ~In(kw, content_)
                                  ELSE ~InLower(kw, content_))
        Emit(condition, improvement) == IF condition THEN <<improvement>> ELSE <<>>
        IdentifyRequirementsZh(content_) ==
            LET ears_count == CountLazy(EarsPatternsZh, content_)
                user_story_count == CountLazy(UserStoryPatternsZh, content_)
                acceptance_criteria == Count(AcceptanceCriteriaZh, content_)
                requirements_count == Count(RequirementsCountZh, content_)
                missing_nfr == MissingNfr(content_, "zh")
                edge_case_count == Coverage(EdgeCaseKeywords("zh"), content_, FALSE)
            IN  Emit(~In("## 1. <6982><8ff0>", content_) /\ ~In("## Introduction", content_)
                         /\ ~In("## <6982><8ff0>", content_),
                     Improvement("add_section", "<6982><8ff0>", "high", "introduction_zh", <<>>))
                \o Emit(~In("## 2. <7528><6237><6545><4e8b>", content_) /\ ~In("<7528><6237><6545><4e8b>", content_),
                        Improvement("add_section", "<7528><6237><6545><4e8b>", "high", "user_stories_zh", <<>>))
                \o Emit(~In("## 3. <529f><80fd><9700><6c42>", content_) /\ ~In("<529f><80fd><9700><6c42>", content_),
                        Improvement("add_section", "<529f><80fd><9700><6c42>", "high",
                                    "functional_requirements_zh", <<>>))
                \o Emit(~In("## 4. <975e><529f><80fd><9700><6c42>", content_) /\ ~In("<975e><529f><80fd><9700><6c42>", content_),
                        Improvement("add_nfr", "<975e><529f><80fd><9700><6c42>", "medium", "nfr_section_zh", <<>>))
                \o Emit(ears_count < 5,
                        Improvement("enhance_criteria", "<9a8c><6536><6807><51c6>", "high", "ears_criteria_zh", <<>>))
                \o Emit(user_story_count < 3,
                        Improvement("enhance_criteria", "<7528><6237><6545><4e8b>", "high",
                                    "user_story_format_zh", <<>>))
                \o Emit(requirements_count > 0 /\ acceptance_criteria < requirements_count,
                        Improvement("enhance_criteria", "<9a8c><6536><6807><51c6>", "high", "", <<>>))
                \o Emit(missing_nfr # <<>>
                            /\ (In("## 4. <975e><529f><80fd><9700><6c42>", content_) \/ In("<975e><529f><80fd><9700><6c42>", content_)),
                        Improvement("add_nfr", "<975e><529f><80fd><9700><6c42>", "medium", "nfr_items_zh", missing_nfr))
                \o Emit(~In("<9519><8bef><5904><7406>", content_) /\ ~In("<5f02><5e38><5904><7406>", content_),
                        Improvement("add_error_handling", "<529f><80fd><9700><6c42>", "medium",
                                    "error_handling_zh", <<>>))
                \o Emit(edge_case_count < 2,
                        Improvement("add_edge_cases", "<9a8c><6536><6807><51c6>", "medium", "edge_cases_zh", <<>>))
                \o Emit(~In("<7ea6><675f><6761><4ef6>", content_) /\ ~In("<9650><5236>", content_),
                        Improvement("add_section", "<7ea6><675f><6761><4ef6>", "low", "constraints_zh", <<>>))
        IdentifyRequirementsEn(content_) ==
            LET ears_count == CountLazy(EarsPatternsEn, content_)
                user_story_count == CountLazy(UserStoryPatternsEn, content_)
                acceptance_criteria == Count(AcceptanceCriteriaEn, content_)
                requirements_count == Count(RequirementsCountEn, content_)
                missing_nfr == MissingNfr(content_, "en")
                edge_case_count == Coverage(EdgeCaseKeywords("en"), content_, TRUE)
            IN  Emit(~In("## Introduction", content_) /\ ~In("## Overview", content_),
                     Improvement("add_section", "Introduction", "high", "introduction_en", <<>>))
                \o Emit(~In("## Glossary", content_) /\ ~In("## Terminology", content_),
                        Improvement("add_glossary_term", "Glossary", "medium", "glossary_en", <<>>))
                \o Emit(~In("User Story", content_) /\ ~InLower("user story", content_),
                        Improvement("add_section", "User Stories", "high", "user_stories_en", <<>>))
                \o Emit(~In("## Requirements", content_)
                            /\ ~In("## Functional Requirements", content_),
                        Improvement("add_section", "Requirements", "high",
                                    "functional_requirements_en", <<>>))
                \o Emit(ears_count < 5,
                        Improvement("enhance_criteria", "Acceptance Criteria", "high",
                                    "ears_criteria_en", <<>>))
                \o Emit(user_story_count < 3,
                        Improvement("enhance_criteria", "User Stories", "high",
                                    "user_story_format_en", <<>>))
                \o Emit(requirements_count > 0 /\ acceptance_criteria < requirements_count,
                        Improvement("enhance_criteria", "Acceptance Criteria", "high", "", <<>>))
                \o Emit(Len(missing_nfr) > 2,
                        Improvement("add_nfr", "Non-functional Requirements", "medium",
                                    "nfr_section_en", FirstThree(missing_nfr)))
                \o Emit(~InLower("error handling", content_) /\ ~InLower("exception", content_),
                        Improvement("add_error_handling", "Requirements", "medium",
                                    "error_handling_en", <<>>))
                \o Emit(edge_case_count < 2,
                        Improvement("add_edge_cases", "Acceptance Criteria", "medium",
                                    "edge_cases_en", <<>>))
                \o Emit(~InLower("constraint", content_) /\ ~InLower("limitation", content_),
                        Improvement("add_section", "Constraints", "low", "constraints_en", <<>>))
    IN
    IF assessment.language = "zh" THEN IdentifyRequirementsZh(content)
    ELSE IdentifyRequirementsEn(content)

\* ------------------------------------------------------------------------
\* One cycle of enhance_requirements_quality on a real content
\* (ultrawork_enhancer_v3.py lines 138-175): assess, identify, apply,
\* assess again.  The evaluator is called without a language, so that the
\* language is detected anew from the current content in every cycle.
\* ------------------------------------------------------------------------

RECURSIVE Flatten(_)
Flatten(blocks) ==
    IF blocks = <<>> THEN <<>> ELSE Head(blocks) \o Flatten(Tail(blocks))

\* the documents handed to the enhancer: the short documents over all input
\* lines and the lists of requirements
EnhanceDocuments ==
    LET
        \* the documents that are a list of at most MaxRequirements requirements
        RequirementDocuments(language) ==
            LET
                \* a requirement with or without its acceptance marker
                RequirementBlocks(language_) ==
                    IF language_ = "zh"
                    THEN {<<Ln("### 1.1 <7528><6237><767b><5f55>")>>,
                          <<Ln("### 1.1 <7528><6237><767b><5f55>"), Ln("**<9a8c><6536><6807><51c6>**:")>>}
                    ELSE {<<Ln("### Requirement 1.1 Login")>>,
                          <<Ln("### Requirement 1.1 Login"), Ln("#### Acceptance Criteria")>>}
            IN
            UNION {{Flatten(blocks) : blocks \in [1..n -> RequirementBlocks(language)]} :
                   n \in 1..MaxRequirements}
    IN
    UNION {Documents("requirements", language)
               \cup RequirementDocuments(language) : language \in {"en", "zh"}}

EnhanceInit ==
    /\ EnhancerInit
    /\ quality_threshold = DefaultThreshold
    /\ max_iterations = 1
    /\ plateau_iterations = 1
    /\ min_score_improvement = DefaultMinImprovement
    /\ document_type = "requirements"
    /\ ap_kind = "requirements"
    /\ ap_content \in EnhanceDocuments
    /\ ap_language = AssessRequirementsQuality(ap_content, NoneValue).language
    /\ ap_input = ap_content
    /\ ap_batch = <<>>
    /\ ap_result = ModificationResult(ap_content, <<>>, <<>>)
    /\ ap_cycles = 0
    /\ Unused({"enhancer", "applicator"})

\* One pass of the while loop with the default plateau_iterations = 3 and
\* max_iterations = 10: within the first three cycles the loop goes on until
\* the threshold is reached or nothing is identified.
EnhanceCycle ==
    LET
        Threshold == Rat(DefaultThreshold * 10, 100)
    IN
    LET content == ap_result.modified_content
        assessment == AssessRequirementsQuality(content, NoneValue)
        identified == IdentifyRequirementsImprovements(content,
                                                       assessment)
    IN  /\ ap_cycles < MaxCycles
        /\ RatLess(assessment.score, Threshold)
        /\ identified # <<>>
        /\ ap_input' = content
        /\ ap_language' = assessment.language
        /\ ap_batch' = identified
        /\ ap_result' = ApplyRequirementsImprovements(content,
                                                      identified,
                                                      assessment.language)
        /\ ap_cycles' = ap_cycles + 1
        /\ UNCHANGED <<ap_kind, ap_content, ctl_vars, gate_vars, ev_vars, tk_vars, bk_vars, wt_vars, v2_vars>>

EnhanceNext == EnhanceCycle

EnhanceSpec == EnhanceInit /\ [][EnhanceNext]_vars

\* the assessments before and after the last cycle
AssessmentBefore == AssessRequirementsQuality(ap_input, NoneValue)
AssessmentAfter ==
    AssessRequirementsQuality(ap_result.modified_content, NoneValue)

\* ========================================================================
\* Part 4. The workflow quality gate: workflow_quality_gate.py main() with
\* QualityGateEnforcer. sys.argv is the script name followed by the
\* arguments; the run of the enhancer inside a gate is given by the
\* final_score of the EnhancementResult it would return (tenths).
\* ========================================================================

\* tasks_threshold=8.0
TasksThreshold == 80

\* sys.argv[1].lower()
Lower(stage) == IF stage = "Requirements" THEN "requirements" ELSE stage

GateInit ==
    LET
        Paths == {"design.md", "requirements.md"}
        GateScores == ScoreValues \cup {TasksThreshold - 1, TasksThreshold}
        \* the command lines: the script name, then up to MaxArguments arguments (a
        \* stage, then paths)
        CommandLines ==
            LET
                \* the stage argument as typed and the paths on the command line
                Stages == {"requirements", "design", "tasks", "Requirements", "deploy"}
            IN
            UNION {{<<"workflow_quality_gate.py">> \o arguments :
                       arguments \in {a \in [1..n -> Stages \cup Paths] :
                                         /\ n >= 1 => a[1] \in Stages
                                         /\ \A i \in 2..n : a[i] \in Paths}} :
                   n \in 0..MaxArguments}
    IN
    /\ EnhancerInit
    /\ quality_threshold = DefaultThreshold
    /\ max_iterations = 1
    /\ plateau_iterations = 1
    /\ min_score_improvement = DefaultMinImprovement
    /\ document_type = "requirements"
    /\ ApplicatorIdle
    /\ gate_argv \in CommandLines
    /\ gate_files \in SUBSET Paths
    /\ gate_score \in GateScores
    /\ gate_exit = <<>>
    /\ Unused({"enhancer", "applicator", "gate"})

\* one run of the script
GateRun ==
    LET
        GateResult(passed, score, threshold) ==
            [passed |-> passed, score |-> score, threshold |-> threshold]
        \* main(): the exit code of the process. sys.exit raises SystemExit, which
        \* "except Exception" does not catch; every other exception of the try block
        \* ends in sys.exit(2).
        Main(argv, files, final_score) ==
            LET
                \* a call with a keyword the function does not have raises TypeError
                EnforcerRaises ==
                    LET
                        \* UltraworkEnhancerV3.__init__(self, quality_threshold, max_iterations,
                        \* plateau_iterations, min_score_improvement)
                        EnhancerParameters ==
                            {"quality_threshold", "max_iterations", "plateau_iterations",
                             "min_score_improvement"}
                        \* QualityGateEnforcer.__init__: self.enhancer = UltraworkEnhancerV3(
                        \* quality_threshold=..., max_iterations=10, plateau_iterations=3,
                        \* create_backups=True, cleanup_backups_on_success=True)
                        EnforcerKeywords ==
                            {"quality_threshold", "max_iterations", "plateau_iterations",
                             "create_backups", "cleanup_backups_on_success"}
                    IN
                    ~(EnforcerKeywords \subseteq EnhancerParameters)
                \* passed = result.final_score >= self.requirements_threshold
                CheckRequirementsGate(final_score_) ==
                    GateResult(final_score_ >= DefaultThreshold, final_score_, DefaultThreshold)
                \* passed = result.final_score >= self.design_threshold
                CheckDesignGate(final_score_) ==
                    GateResult(final_score_ >= DefaultThreshold, final_score_, DefaultThreshold)
                \* passed = result.final_score >= self.tasks_threshold
                CheckTasksGate(final_score_) ==
                    GateResult(final_score_ >= TasksThreshold, final_score_, TasksThreshold)
                \* sys.exit(0 if result.passed else 1)
                ExitOf(gate_result) == IF gate_result.passed THEN 0 ELSE 1
            IN
            IF Len(argv) < 3 THEN 2
            ELSE LET stage == Lower(argv[2])
                     doc_path == argv[3]
                 IN  IF doc_path \notin files THEN 2
                     ELSE IF EnforcerRaises THEN 2
                     ELSE IF stage = "requirements"
                     THEN ExitOf(CheckRequirementsGate(final_score))
                     ELSE IF stage = "design"
                     THEN IF Len(argv) < 4 THEN 2
                          ELSE IF argv[4] \notin files THEN 2
                          ELSE ExitOf(CheckDesignGate(final_score))
                     ELSE IF stage = "tasks"
                     THEN ExitOf(CheckTasksGate(final_score))
                     ELSE 2
    IN
    /\ gate_exit = <<>>
    /\ gate_exit' = <<Main(gate_argv, gate_files, gate_score)>>
    /\ UNCHANGED <<gate_argv, gate_files, gate_score, ctl_vars, ap_vars, ev_vars, tk_vars, bk_vars, wt_vars, v2_vars>>

GateNext == GateRun

GateSpec == GateInit /\ [][GateNext]_vars

\* ------------------------------------------------------------------------
\* DocumentEvaluator called directly: assess_requirements_quality,
\* assess_design_quality and assess_tasks_quality on one instance
\* ------------------------------------------------------------------------
\* Mutant of Saturating: count * unit, never clipped.
SaturatingUnbounded(count, unit, cap) == count * unit

\* min(count * unit, cap) in hundredths
Saturating(count, unit, cap) ==
    IF count * unit < cap THEN count * unit ELSE cap

\* A design document is given by what the patterns of assess_design_quality
\* find in it: the expected sections present, the matches of each
\* re.findall and the keywords covered.
NoFeatures ==
    [sections |-> 0, req_references |-> 0, bidirectional_refs |-> 0,
     total_diagrams |-> 0, component_sections |-> 0,
     interface_definitions |-> 0, responsibility_mentions |-> 0,
     dependency_mentions |-> 0, tech_coverage |-> 0, nfr_coverage |-> 0,
     interface_indicators |-> 0]

\* assess_design_quality(design_content, requirements_content, language):
\* the requirements content is not read
AssessDesignQuality(design_content, features, language) ==
    LET
        DesignAssessment(criteria_scores, language_) ==
            LET total == criteria_scores.structure + criteria_scores.traceability
                         + criteria_scores.diagrams + criteria_scores.component_detail
                         + criteria_scores.technology + criteria_scores.nfr_design
                         + criteria_scores.interfaces
            IN  [score |-> Hundredths(IF total < 1000 THEN total ELSE 1000),
                 criteria_scores |-> [c \in DOMAIN criteria_scores |->
                                         Hundredths(criteria_scores[c])],
                 missing_sections |-> <<>>,
                 language |-> language_]
        \* the 'zh' branch of assess_design_quality, in hundredths
        AssessDesignZh(f) ==
            DesignAssessment(
                [structure |-> 50 * f.sections,
                 traceability |-> Saturating(f.req_references, 15, 200)
                     + (IF f.bidirectional_refs > 0
                        THEN Saturating(f.bidirectional_refs, 10, 50) ELSE 0),
                 diagrams |-> Saturating(f.total_diagrams, 40, 150),
                 component_detail |->
                       (IF f.component_sections > 0
                        THEN Saturating(f.component_sections, 15, 50) ELSE 0)
                     + (IF f.interface_definitions > 0
                        THEN Saturating(f.interface_definitions, 10, 50) ELSE 0)
                     + (IF f.responsibility_mentions > 0
                        THEN Saturating(f.responsibility_mentions, 10, 50) ELSE 0),
                 technology |-> Saturating(f.tech_coverage, 20, 100),
                 nfr_design |-> Saturating(f.nfr_coverage, 20, 100),
                 interfaces |-> Saturating(f.interface_indicators, 25, 100)], "zh")
        \* the other branch
        AssessDesignEn(f, language_) ==
            DesignAssessment(
                [structure |-> 50 * f.sections,
                 traceability |-> Saturating(f.req_references, 12, 200)
                     + (IF f.bidirectional_refs > 0
                        THEN Saturating(f.bidirectional_refs, 8, 50) ELSE 0),
                 diagrams |-> Saturating(f.total_diagrams, 35, 150),
                 component_detail |->
                       (IF f.component_sections > 0
                        THEN Saturating(f.component_sections, 12, 50) ELSE 0)
                     + (IF f.interface_definitions > 0
                        THEN Saturating(f.interface_definitions, 8, 40) ELSE 0)
                     + (IF f.responsibility_mentions > 0
                        THEN Saturating(f.responsibility_mentions, 8, 30) ELSE 0)
                     + (IF f.dependency_mentions > 0
                        THEN Saturating(f.dependency_mentions, 6, 30) ELSE 0),
                 technology |-> Saturating(f.tech_coverage, 15, 100),
                 nfr_design |-> Saturating(f.nfr_coverage, 15, 100),
                 interfaces |-> Saturating(f.interface_indicators, 20, 100)], language_)
    IN
    LET lang == IF language = NoneValue THEN DetectLanguage(design_content)
                ELSE language
    IN  IF lang = "zh" THEN AssessDesignZh(features)
        ELSE AssessDesignEn(features, lang)

\* len(re.findall(...)) of the four status patterns '- \[x\] (.+)', '- \[-\] (.+)',
\* '- \[ \] (.+)' and '- \[~\] (.+)': the matches in a line (no pattern matches
\* across lines)
TaskMatches ==
    [t \in {"- [x] 6. Plan - [ ] 7. Build"} |->
        [completed |-> 1, in_progress |-> 0, not_started |-> 1, queued |-> 0]]
    @@
    [t \in {"- [x] 1. Set up the project"} |->
        [completed |-> 1, in_progress |-> 0, not_started |-> 0, queued |-> 0]]
    @@
    [t \in {"- [-] 2. Write the parser"} |->
        [completed |-> 0, in_progress |-> 1, not_started |-> 0, queued |-> 0]]
    @@
    [t \in {"- [ ] 3. Write the tests"} |->
        [completed |-> 0, in_progress |-> 0, not_started |-> 1, queued |-> 0]]
    @@
    [t \in {"- [~] 4. Release"} |->
        [completed |-> 0, in_progress |-> 0, not_started |-> 0, queued |-> 1]]

\* Mutant of AssessTasksQuality: queued tasks are not counted.
AssessTasksQualityNoQueued(content) ==
    LET completed == Count([t \in DOMAIN TaskMatches |->
                               TaskMatches[t].completed], content)
        in_progress == Count([t \in DOMAIN TaskMatches |->
                                 TaskMatches[t].in_progress], content)
        not_started == Count([t \in DOMAIN TaskMatches |->
                                 TaskMatches[t].not_started], content)
        total == completed + in_progress + not_started
        score == IF total > 0 THEN Rat(completed * 10, total)
                 ELSE Hundredths(0)
    IN  [score |-> RatMin(score, Hundredths(1000)),
         criteria_scores |-> [completion_rate |-> score],
         missing_sections |-> <<>>,
         language |-> "en"]

\* assess_tasks_quality: completed / total * 100 / 10.0
AssessTasksQuality(content) ==
    LET completed == Count([t \in DOMAIN TaskMatches |->
                               TaskMatches[t].completed], content)
        in_progress == Count([t \in DOMAIN TaskMatches |->
                                 TaskMatches[t].in_progress], content)
        not_started == Count([t \in DOMAIN TaskMatches |->
                                 TaskMatches[t].not_started], content)
        queued == Count([t \in DOMAIN TaskMatches |->
                            TaskMatches[t].queued], content)
        total == completed + in_progress + not_started + queued
        score == IF total > 0 THEN Rat(completed * 10, total)
                 ELSE Hundredths(0)
    IN  [score |-> RatMin(score, Hundredths(1000)),
         criteria_scores |-> [completion_rate |-> score],
         missing_sections |-> <<>>,
         language |-> "en"]

\* Mutant of Evaluate: a language once assigned to the instance is used for
\* the calls that follow.
EvaluateRemembering(self_language, call) ==
    LET language == IF self_language # NoneValue THEN self_language
                    ELSE call.language
        assessment ==
            CASE call.mode = "requirements" ->
                     AssessRequirementsQuality(call.content, language)
              [] call.mode = "design" ->
                     AssessDesignQuality(call.content, call.features, language)
              [] OTHER -> AssessTasksQuality(call.content)
    IN  [assessment |-> assessment,
         language |-> IF call.mode = "tasks" THEN self_language
                      ELSE assessment.language]

\* One call of a method of an instance whose language attribute is
\* self_language: the assessment returned and the attribute afterwards.
\* Both document methods assign self.language; no method reads it.
Evaluate(self_language, call) ==
    LET assessment ==
            CASE call.mode = "requirements" ->
                     AssessRequirementsQuality(call.content, call.language)
              [] call.mode = "design" ->
                     AssessDesignQuality(call.content, call.features,
                                         call.language)
              [] OTHER -> AssessTasksQuality(call.content)
    IN  [assessment |-> assessment,
         language |-> IF call.mode = "tasks" THEN self_language
                      ELSE assessment.language]

\* the points a criterion can give, in hundredths: the sum of its additions,
\* each of them a constant or clipped by min
CriterionCaps(mode) ==
    CASE mode = "requirements" ->
             [structure |-> 200, ears_format |-> 200, user_stories |-> 200,
              acceptance_criteria |-> 200, nfr_coverage |-> 100,
              constraints |-> 100]
      [] mode = "design" ->
             [structure |-> 250, traceability |-> 250, diagrams |-> 150,
              component_detail |-> 150, technology |-> 100,
              nfr_design |-> 100, interfaces |-> 100]
      [] OTHER -> [completion_rate |-> 1000]

EvaluatorCall(mode, content, features, language) ==
    [mode |-> mode, content |-> content, features |-> features,
     language |-> language]

\* the documents of the first call on an instance: one of each language
FirstDocuments == {<<Ln("<5b57>")>>, <<Ln("one two three four")>>}

TaskDocuments ==
    LET
        TaskLines ==
            {Ln("# Tasks"),
             Ln("- [x] 1. Set up the project"),
             Ln("- [-] 2. Write the parser"),
             Ln("- [ ] 3. Write the tests"),
             Ln("- [~] 4. Release"),
             Ln("- [X] 5. Review"),
             Ln("- [x] "),
             Ln("- [x] 6. Plan - [ ] 7. Build")}
    IN
    UNION {[1..n -> TaskLines] : n \in 1..MaxTaskLines}

LanguageArguments == {NoneValue, "en", "zh"}

EvaluatorInit ==
    /\ ev_language = NoneValue
    /\ ev_call = <<>>
    /\ ev_assessment = <<>>
    /\ ev_previous = <<>>
    /\ ev_log = <<>>
    /\ Unused({"evaluator"})

\* a call on the instance
Assess(call) ==
    /\ LET done == Evaluate(ev_language, call)
       IN  /\ ev_language' = done.language
           /\ ev_assessment' = done.assessment
           /\ ev_log' = Append(ev_log, [mode |-> call.mode,
                                        language |-> done.assessment.language])
    /\ ev_call' = call
    /\ UNCHANGED <<ev_previous, ctl_vars, ap_vars, gate_vars, tk_vars, bk_vars, wt_vars, v2_vars>>

AssessRequirements ==
    LET
        LanguageDocuments ==
            LET
                \* lines with 100, 101 and 1 ideographs and with 3, 4 and 310 words
                LanguageLines ==
                    {Ln("<6587><6587><6587><6587><6587><6587><6587><6587><6587><6587><6587><6587><6587><6587><6587><6587><6587><6587><6587><6587><6587><6587><6587><6587><6587><6587><6587><6587><6587><6587><6587><6587><6587><6587><6587><6587><6587><6587><6587><6587><6587><6587><6587><6587><6587><6587><6587><6587><6587><6587><6587><6587><6587><6587><6587><6587><6587><6587><6587><6587><6587><6587><6587><6587><6587><6587><6587><6587><6587><6587><6587><6587><6587><6587><6587><6587><6587><6587><6587><6587><6587><6587><6587><6587><6587><6587><6587><6587><6587><6587><6587><6587><6587><6587><6587><6587><6587><6587><6587><6587>"),
                     Ln("<6587><6587><6587><6587><6587><6587><6587><6587><6587><6587><6587><6587><6587><6587><6587><6587><6587><6587><6587><6587><6587><6587><6587><6587><6587><6587><6587><6587><6587><6587><6587><6587><6587><6587><6587><6587><6587><6587><6587><6587><6587><6587><6587><6587><6587><6587><6587><6587><6587><6587><6587><6587><6587><6587><6587><6587><6587><6587><6587><6587><6587><6587><6587><6587><6587><6587><6587><6587><6587><6587><6587><6587><6587><6587><6587><6587><6587><6587><6587><6587><6587><6587><6587><6587><6587><6587><6587><6587><6587><6587><6587><6587><6587><6587><6587><6587><6587><6587><6587><6587><6587>"),
                     Ln("<5b57>"),
                     Ln("one two three"),
                     Ln("one two three four"),
                     Ln("word word word word word word word word word word word word word word word word word word word word word word word word word word word word word word word word word word word word word word word word word word word word word word word word word word word word word word word word word word word word word word word word word word word word word word word word word word word word word word word word word word word word word word word word word word word word word word word word word word word word word word word word word word word word word word word word word word word word word word word word word word word word word word word word word word word word word word word word word word word word word word word word word word word word word word word word word word word word word word word word word word word word word word word word word word word word word word word word word word word word word word word word word word word word word word word word word word word word word word word word word word word word word word word word word word word word word word word word word word word word word word word word word word word word word word word word word word word word word word word word word word word word word word word word word word word word word word word word word word word word word word word word word word word word word word word word word word word word word word word word word word word word word word word word word word word word word word word word word word word word word word word word word word word word word word")}
            IN
            UNION {[1..n -> LanguageLines] : n \in 1..MaxEvalLines}
    IN
    /\ ev_previous = <<>>
    /\ Len(ev_log) < 2
    /\ \E content \in (IF ev_log = <<>> THEN FirstDocuments
                    ELSE LanguageDocuments \cup EnhanceDocuments),
       language \in (IF ev_log = <<>> THEN {NoneValue}
                     ELSE LanguageArguments) :
        Assess(EvaluatorCall("requirements", content, NoFeatures, language))

AssessDesign ==
    LET
        \* every match of the bidirectional pattern is a match of the reference
        \* pattern too
        DesignFeatures ==
            {f \in [sections : {0, 5}, req_references : {0, 1, MaxCount},
                    bidirectional_refs : {0, 1, MaxCount},
                    total_diagrams : {0, MaxCount}, component_sections : {0, MaxCount},
                    interface_definitions : {0, MaxCount},
                    responsibility_mentions : {0, MaxCount},
                    dependency_mentions : {0, MaxCount}, tech_coverage : {0, 7},
                    nfr_coverage : {0, 7}, interface_indicators : {0, MaxCount}] :
                f.bidirectional_refs <= f.req_references}
    IN
    /\ ev_previous = <<>>
    /\ Len(ev_log) < 2
    /\ \E content \in FirstDocuments,
       features \in (IF ev_log = <<>> THEN {NoFeatures} ELSE DesignFeatures),
       language \in (IF ev_log = <<>> THEN {NoneValue}
                     ELSE LanguageArguments) :
        Assess(EvaluatorCall("design", content, features, language))

AssessTasks ==
    /\ ev_previous = <<>>
    /\ Len(ev_log) < 2
    /\ \E content \in (IF ev_log = <<>> THEN {<<Ln("# Tasks")>>}
                    ELSE TaskDocuments) :
        Assess(EvaluatorCall("tasks", content, NoFeatures, NoneValue))

\* the last call once more, with the same arguments
AssessAgain ==
    /\ ev_log # <<>>
    /\ ev_previous = <<>>
    /\ LET done == Evaluate(ev_language, ev_call)
       IN  /\ ev_language' = done.language
           /\ ev_assessment' = done.assessment
           /\ ev_log' = Append(ev_log, [mode |-> ev_call.mode,
                                        language |-> done.assessment.language])
    /\ ev_previous' = <<ev_assessment>>
    /\ UNCHANGED <<ev_call, ctl_vars, ap_vars, gate_vars, tk_vars, bk_vars, wt_vars, v2_vars>>

EvaluatorNext ==
    \/ AssessRequirements
    \/ AssessDesign
    \/ AssessTasks
    \/ AssessAgain

EvaluatorSpec == EvaluatorInit /\ [][EvaluatorNext]_vars

\* ------------------------------------------------------------------------
\* UltraworkEnhancerV3.validate_tasks_completeness(tasks_path)
\* ------------------------------------------------------------------------
TasksInit ==
    /\ tk_file \in TaskDocuments
    /\ tk_log = <<>>
    /\ tk_calls = <<>>
    /\ tk_result = <<>>
    /\ Unused({"tasks"})

\* the whole method: one open for reading, one assessment, no write
ValidateTasks ==
    LET
        \* the return value, given whether open(tasks_path, 'r') and read() succeed
        ValidateTasksCompleteness(content, readable) ==
            IF ~readable
            THEN EnhancementResult(FALSE, Hundredths(0), Hundredths(0), 0, 0, 0,
                                   "file_read_error", <<>>)
            ELSE LET score == AssessTasksQuality(content).score
                 IN  EnhancementResult(TRUE, score, score, 0, 0, 0,
                                       "validation_only", <<score>>)
    IN
    /\ tk_result = <<>>
    /\ \E readable \in BOOLEAN :
           /\ tk_log' = Append(tk_log, [op |-> "r", path |-> "tasks",
                                        ok |-> readable])
           /\ tk_calls' = IF readable
                          THEN Append(tk_calls, "assess_tasks_quality")
                          ELSE tk_calls
           /\ tk_result' = <<ValidateTasksCompleteness(tk_file, readable)>>
    /\ UNCHANGED <<tk_file, ctl_vars, ap_vars, gate_vars, ev_vars, bk_vars, wt_vars, v2_vars>>

TasksSpec == TasksInit /\ [][ValidateTasks]_vars

\* ------------------------------------------------------------------------
\* BackupManager(backup_dir=None): create_backup, restore_backup,
\* cleanup_backup, list_backups and get_backup_info, and the documents
\* modified between the calls
\* ------------------------------------------------------------------------
\* two documents of the same name in two spec directories
BackupPaths == {"specs/a/requirements.md", "specs/b/requirements.md"}

\* _get_backup_dir: the backups directory beside the file
BackupDir(file_path) ==
    IF file_path = "specs/a/requirements.md" THEN "specs/a/backups"
    ELSE "specs/b/backups"

\* f"{file_name}.backup-{timestamp_str}"
BackupId(file_path, timestamp) ==
    LET
        \* os.path.basename(file_path)
        FileName(file_path_) == "requirements.md"
    IN
    <<FileName(file_path), timestamp>>

BackupIds == {BackupId(p, t) : p \in BackupPaths, t \in 1..MaxClock}

\* the file system and the registry a method works on
BackupState == [files |-> bk_files, store |-> bk_store, backups |-> bk_backups]

Outcome(state, outcome) ==
    [files |-> state.files, store |-> state.store, backups |-> state.backups,
     outcome |-> outcome]

\* Mutant of RestoreBackup: an id that is not registered restores the
\* backup file of that name beside the first document.
RestoreBackupUnregistered(state, backup_id) ==
    LET backup_info ==
            IF backup_id \in DOMAIN state.backups THEN state.backups[backup_id]
            ELSE [original_path |-> "specs/a/requirements.md",
                  backup_path |-> <<"specs/a/backups", backup_id>>]
    IN  IF state.store[backup_info.backup_path] = 0
        THEN Outcome(state, "IOError")
        ELSE [files |-> [state.files EXCEPT ![backup_info.original_path] =
                             state.store[backup_info.backup_path]],
              store |-> state.store,
              backups |-> state.backups,
              outcome |-> "True"]

\* restore_backup(backup_id)
RestoreBackup(state, backup_id) ==
    IF backup_id \notin DOMAIN state.backups THEN Outcome(state, "ValueError")
    ELSE LET backup_info == state.backups[backup_id]
         IN  IF state.store[backup_info.backup_path] = 0
             THEN Outcome(state, "IOError")
             ELSE [files |-> [state.files EXCEPT
                                  ![backup_info.original_path] =
                                      state.store[backup_info.backup_path]],
                   store |-> state.store,
                   backups |-> state.backups,
                   outcome |-> "True"]

\* list_backups(file_path): the ids of the infos returned (NoneValue: all)
ListBackups(backups, file_path) ==
    {i \in DOMAIN backups :
        file_path = NoneValue \/ backups[i].original_path = file_path}

\* get_backup_info(backup_id)
GetBackupInfo(backups, backup_id) ==
    IF backup_id \in DOMAIN backups THEN <<backups[backup_id]>> ELSE <<>>

BackupInit ==
    /\ bk_files = [p \in BackupPaths |-> 1]
    /\ bk_store = [b \in {BackupDir(p) : p \in BackupPaths} \X BackupIds |-> 0]
    /\ bk_backups = <<>>
    /\ bk_taken = <<>>
    /\ bk_last = <<>>
    /\ bk_ops = 0
    /\ Unused({"backup"})

\* the state after a method returned (True and False stand for the
\* booleans) or raised
Returns(op, argument, after, taken) ==
    /\ bk_files' = after.files
    /\ bk_store' = after.store
    /\ bk_backups' = after.backups
    /\ bk_taken' = taken
    /\ bk_last' = <<[op |-> op, argument |-> argument,
                    outcome |-> after.outcome]>>
    /\ bk_ops' = bk_ops + 1
    /\ UNCHANGED <<ctl_vars, ap_vars, gate_vars, ev_vars, tk_vars, wt_vars, v2_vars>>

\* create_backup(file_path): the clock reads any of its values
Create ==
    LET
        \* create_backup(file_path) when datetime.now() reads timestamp
        CreateBackup(state, file_path, timestamp) ==
            IF state.files[file_path] = 0 THEN Outcome(state, "FileNotFoundError")
            ELSE LET backup_id == BackupId(file_path, timestamp)
                     backup_path == <<BackupDir(file_path), backup_id>>
                     backup_info == [backup_id |-> backup_id,
                                     original_path |-> file_path,
                                     backup_path |-> backup_path,
                                     timestamp |-> timestamp]
                 IN  [files |-> state.files,
                      store |-> [state.store EXCEPT
                                     ![backup_path] = state.files[file_path]],
                      backups |-> [i \in DOMAIN state.backups \cup {backup_id} |->
                                      IF i = backup_id THEN backup_info
                                      ELSE state.backups[i]],
                      outcome |-> backup_id]
    IN
    /\ bk_ops < MaxOperations
    /\ \E file_path \in BackupPaths, timestamp \in 1..MaxClock :
           LET after == CreateBackup(BackupState, file_path, timestamp)
           IN  Returns("create_backup", file_path, after,
                       IF bk_files[file_path] = 0 THEN bk_taken
                       ELSE Append(bk_taken,
                                   [backup_id |-> after.outcome,
                                    path |-> file_path,
                                    content |-> bk_files[file_path],
                                    live |-> TRUE]))

\* the document is written or removed by its owner
Modify ==
    /\ bk_ops < MaxOperations
    /\ \E file_path \in BackupPaths, content \in 0..MaxContent :
           /\ content # bk_files[file_path]
           /\ bk_files' = [bk_files EXCEPT ![file_path] = content]
           /\ bk_last' = <<[op |-> "modify", argument |-> file_path,
                           outcome |-> content]>>
    /\ bk_ops' = bk_ops + 1
    /\ UNCHANGED <<bk_store, bk_backups, bk_taken, ctl_vars, ap_vars, gate_vars, ev_vars, tk_vars, wt_vars, v2_vars>>

Restore ==
    /\ bk_ops < MaxOperations
    /\ \E backup_id \in BackupIds :
           Returns("restore_backup", backup_id,
                   RestoreBackup(BackupState, backup_id), bk_taken)

Cleanup ==
    LET
        \* cleanup_backup(backup_id)
        CleanupBackup(state, backup_id) ==
            IF backup_id \notin DOMAIN state.backups THEN Outcome(state, "False")
            ELSE LET backup_info == state.backups[backup_id]
                 IN  [files |-> state.files,
                      store |-> [state.store EXCEPT ![backup_info.backup_path] = 0],
                      backups |-> [i \in DOMAIN state.backups \ {backup_id} |->
                                      state.backups[i]],
                      outcome |-> "True"]
    IN
    /\ bk_ops < MaxOperations
    /\ \E backup_id \in BackupIds :
           LET after == CleanupBackup(BackupState, backup_id)
           IN  Returns("cleanup_backup", backup_id, after,
                       IF after.outcome = "True"
                       THEN [k \in DOMAIN bk_taken |->
                                IF bk_taken[k].backup_id = backup_id
                                THEN [bk_taken[k] EXCEPT !.live = FALSE]
                                ELSE bk_taken[k]]
                       ELSE bk_taken)

BackupNext ==
    \/ Create
    \/ Modify
    \/ Restore
    \/ Cleanup

BackupSpec == BackupInit /\ [][BackupNext]_vars

\* ------------------------------------------------------------------------
\* Weights: QualityScorer.configure_weights and
\* ConfigurationManager.load_config.  A weight of the scorer is a number of
\* hundredths (the weights passed are multiples of 0.05, so that the sums
\* the source computes in floating point are off their exact value by less
\* than the distance to the tolerance); a weight of the configuration is an
\* exact fraction, because load_config divides.
\* ------------------------------------------------------------------------
\* QualityScorer.configure_weights(weights): the two dictionaries afterwards
\* and the exception raised
ConfigureWeights(requirements_weights, design_weights, weights) ==
    LET RECURSIVE SumValues(_)
        \* sum(weights.values())
        SumValues(d) ==
            IF DOMAIN d = {} THEN 0
            ELSE LET criterion == CHOOSE c \in DOMAIN d : TRUE
                 IN  d[criterion]
                     + SumValues([c \in DOMAIN d \ {criterion} |-> d[c]])
        total_weight == SumValues(weights)
        distance == IF total_weight > 100 THEN total_weight - 100
                    ELSE 100 - total_weight
    IN  IF distance > 1
        THEN [requirements_weights |-> requirements_weights,
              design_weights |-> design_weights, raised |-> "ValueError"]
        ELSE [requirements_weights |->
                  [c \in DOMAIN requirements_weights |->
                      IF c \in DOMAIN weights THEN weights[c]
                      ELSE requirements_weights[c]],
              design_weights |->
                  [c \in DOMAIN design_weights |->
                      IF c \in DOMAIN weights /\ c \notin DOMAIN requirements_weights
                      THEN weights[c]
                      ELSE design_weights[c]],
              raised |-> "None"]

\* ConfigurationManager._validate_config(config_dict): the dictionary
\* returned and the exception raised.  Thresholds are in hundredths.
ValidateConfig(config_dict) ==
    LET req_weights == <<"req_structure_weight", "req_ears_weight",
                         "req_stories_weight", "req_criteria_weight",
                         "req_nfr_weight", "req_constraints_weight">>
        design_weights == <<"design_structure_weight",
                            "design_traceability_weight",
                            "design_components_weight",
                            "design_diagrams_weight",
                            "design_technology_weight", "design_nfr_weight",
                            "design_interfaces_weight">>
        Range(keys) == {keys[i] : i \in DOMAIN keys}
        Clamp(low, high, value) ==
            IF value > high THEN high ELSE IF value < low THEN low ELSE value
        clamped == [k \in DOMAIN config_dict |->
                       IF k \in {"requirements_threshold", "design_threshold",
                                 "tasks_threshold"}
                       THEN Clamp(0, 1000, config_dict[k])
                       ELSE IF k = "max_iterations"
                       THEN Clamp(1, 100, config_dict[k])
                       ELSE IF k = "plateau_iterations"
                       THEN Clamp(1, 10, config_dict[k])
                       ELSE config_dict[k]]
        RECURSIVE Total(_, _, _)
        \* sum(config_dict[k] for k in keys)
        Total(d, keys, i) ==
            IF i > Len(keys) THEN Rat(0, 1)
            ELSE RatAdd(d[keys[i]], Total(d, keys, i + 1))
        RECURSIVE Gcd(_, _)
        Gcd(a, b) == IF b = 0 THEN a ELSE Gcd(b, a % b)
        Magnitude(n) == IF n < 0 THEN 0 - n ELSE n
        \* value / total, in lowest terms with a positive denominator
        Divide(value, total) ==
            LET num == value.num * total.den * (IF total.num < 0 THEN 0 - 1 ELSE 1)
                den == value.den * Magnitude(total.num)
                g == Gcd(Magnitude(num), den)
            IN  IF g = 0 THEN Rat(0, 1) ELSE Rat(num \div g, den \div g)
        \* abs(total - 1.0) > 0.01
        MisSummed(total) == 100 * Magnitude(total.num - total.den) > total.den
        \* one block of weights: normalized, or the division by zero
        Normalize(d, keys) ==
            LET total == Total(d, keys, 1)
            IN  IF ~(Range(keys) \subseteq DOMAIN d) \/ ~MisSummed(total)
                THEN [config |-> d, raised |-> "None"]
                ELSE IF total.num = 0
                THEN [config |-> d, raised |-> "ZeroDivisionError"]
                ELSE [config |-> [k \in DOMAIN d |->
                                     IF k \in Range(keys)
                                     THEN Divide(d[k], total) ELSE d[k]],
                      raised |-> "None"]
        requirements == Normalize(clamped, req_weights)
    IN  IF requirements.raised # "None" THEN requirements
        ELSE Normalize(requirements.config, design_weights)

\* ConfigurationManager.load_config(spec_path), given the dictionaries read
\* from the project file and from the file of the spec (<<>>: no file, an
\* unreadable file or an empty dictionary): self.config afterwards and the
\* exception raised
LoadConfig(self_config, project_config, spec_config) ==
    LET Update(d, other) ==
            [k \in DOMAIN d \cup DOMAIN other |->
                IF k \in DOMAIN other THEN other[k] ELSE d[k]]
        validated == ValidateConfig(Update(Update(self_config, project_config),
                                           spec_config))
    IN  IF validated.raised # "None"
        THEN [config |-> self_config, raised |-> validated.raised]
        ELSE validated

\* QualityScorer() and ConfigurationManager(): the default weights and the
\* fields of UltraworkConfig() that _validate_config looks at
WeightsInit ==
    /\ qs_requirements_weights =
           [c \in {"structure", "ears_format", "user_stories",
                   "acceptance_criteria", "nfr_coverage", "constraints"} |->
               IF c \in {"nfr_coverage", "constraints"} THEN 10 ELSE 20]
    /\ qs_design_weights =
           ("structure" :> 25) @@ ("traceability" :> 20)
           @@ ("component_detail" :> 20) @@ ("diagrams" :> 15)
           @@ ("technology" :> 10) @@ ("nfr_design" :> 5)
           @@ ("interfaces" :> 5)
    /\ cm_config =
           ("requirements_threshold" :> 900) @@ ("design_threshold" :> 900)
           @@ ("tasks_threshold" :> 800) @@ ("max_iterations" :> 10)
           @@ ("plateau_iterations" :> 3)
           @@ ("req_structure_weight" :> Hundredths(20))
           @@ ("req_ears_weight" :> Hundredths(20))
           @@ ("req_stories_weight" :> Hundredths(20))
           @@ ("req_criteria_weight" :> Hundredths(20))
           @@ ("req_nfr_weight" :> Hundredths(10))
           @@ ("req_constraints_weight" :> Hundredths(10))
           @@ ("design_structure_weight" :> Hundredths(25))
           @@ ("design_traceability_weight" :> Hundredths(20))
           @@ ("design_components_weight" :> Hundredths(20))
           @@ ("design_diagrams_weight" :> Hundredths(15))
           @@ ("design_technology_weight" :> Hundredths(10))
           @@ ("design_nfr_weight" :> Hundredths(5))
           @@ ("design_interfaces_weight" :> Hundredths(5))
    /\ wt_last = <<>>
    /\ wt_calls = 0
    /\ Unused({"weights"})

\* a caller overrides weights of the scorer
Configure ==
    /\ wt_calls < MaxOverrides
    /\ \E weights \in
           {"structure" :> 100,
            ("traceability" :> 50) @@ ("diagrams" :> 50),
            ("structure" :> 50) @@ ("ears_format" :> 50),
            ("structure" :> 30) @@ ("ears_format" :> 30),
            ("structure" :> 40) @@ ("ears_format" :> 10)
                @@ ("user_stories" :> 10) @@ ("acceptance_criteria" :> 10)
                @@ ("nfr_coverage" :> 20) @@ ("constraints" :> 10),
            ("structure" :> 25) @@ ("traceability" :> 20)
                @@ ("component_detail" :> 20) @@ ("diagrams" :> 15)
                @@ ("technology" :> 10) @@ ("nfr_design" :> 5)
                @@ ("interfaces" :> 5),
            "readability" :> 100} :
           LET after == ConfigureWeights(qs_requirements_weights,
                                         qs_design_weights, weights)
           IN  /\ qs_requirements_weights' = after.requirements_weights
               /\ qs_design_weights' = after.design_weights
               /\ wt_last' = [op |-> "configure_weights",
                              outcome |-> after.raised]
    /\ wt_calls' = wt_calls + 1
    /\ UNCHANGED <<cm_config, ctl_vars, ap_vars, gate_vars, ev_vars, tk_vars, bk_vars, v2_vars>>

\* the configuration is loaded from the files of the project and of the spec
Load ==
    /\ wt_calls < MaxOverrides
    /\ \E project_config, spec_config \in
           {<<>>,
            [k \in {"req_structure_weight", "req_ears_weight",
                    "req_stories_weight", "req_criteria_weight",
                    "req_nfr_weight", "req_constraints_weight"} |->
                Hundredths(0)],
            [k \in {"req_structure_weight", "req_ears_weight",
                    "req_stories_weight", "req_criteria_weight",
                    "req_nfr_weight", "req_constraints_weight"} |->
                IF k \in {"req_nfr_weight", "req_constraints_weight"}
                THEN Hundredths(20) ELSE Hundredths(40)],
            "req_structure_weight" :> Hundredths(50),
            [k \in {"design_structure_weight", "design_traceability_weight",
                    "design_components_weight", "design_diagrams_weight",
                    "design_technology_weight", "design_nfr_weight",
                    "design_interfaces_weight"} |-> Hundredths(10)],
            ("requirements_threshold" :> 1200) @@ ("max_iterations" :> 0)
                @@ ("plateau_iterations" :> 50)} :
           LET after == LoadConfig(cm_config, project_config, spec_config)
           IN  /\ cm_config' = after.config
               /\ wt_last' = [op |-> "load_config", outcome |-> after.raised]
    /\ wt_calls' = wt_calls + 1
    /\ UNCHANGED <<qs_requirements_weights, qs_design_weights, ctl_vars, ap_vars, gate_vars, ev_vars, tk_vars, bk_vars, v2_vars>>

WeightsSpec == WeightsInit /\ [][Configure \/ Load]_vars

\* ------------------------------------------------------------------------
\* UltraworkEnhancer (V2): enhance_requirements_quality with the evaluator,
\* the identifier and the applicator of the requirements above, and
\* enhance_design_completeness with the scores of the design document, the
\* number of cycles the identifier finds something in and the change of the
\* content as inputs.
\* ------------------------------------------------------------------------
\* self.quality_threshold = 9.0 and self.max_iterations = 10
V2Defaults == [quality_threshold |-> Hundredths(900), max_iterations |-> 10]

\* UltraworkEnhancer(), a requirements file and a design file
V2Init ==
    /\ v2_requirements \in EnhanceDocuments
    /\ v2_design = "original"
    /\ v2_improvement_log = <<>>
    /\ v2_assessed = <<>>
    /\ v2_result = <<>>
    /\ Unused({"v2"})

\* enhance_requirements_quality(requirements_path), given whether the file
\* exists (first disjunct: it does not)
V2EnhanceRequirements ==
    LET Reached(score) == ~RatLess(score, V2Defaults.quality_threshold)
        Only(values) == CHOOSE value \in values : TRUE
        Left(content, quality_score, iteration_, log, reason) ==
            [content |-> content, quality_score |-> quality_score,
             iteration |-> iteration_, log |-> log, stopping_reason |-> reason]
        RECURSIVE Loop(_, _, _, _, _)
        \* the while loop from the state at its head: the content, the
        \* assessment, quality_score, iteration and the log when it is left
        Loop(content, assessment, quality_score, iteration_, log) ==
            IF iteration_ >= V2Defaults.max_iterations
            THEN Left(content, quality_score, iteration_, log, "max_iterations")
            ELSE Only({
                IF improvements_list = <<>>
                THEN Left(content, quality_score, iteration_, log,
                          "no_improvements")
                ELSE Only({Only({
                    LET new_quality_score == new_assessment.score
                        new_log == Append(log,
                            [stage |-> "requirements",
                             iteration |-> iteration_ + 1,
                             improvements |-> modification.applied_improvements,
                             quality_score |-> new_quality_score])
                    IN  IF Reached(new_quality_score)
                        THEN Left(modification.modified_content, quality_score,
                                  iteration_ + 1, new_log, "threshold_reached")
                        ELSE IF ~RatLess(quality_score, new_quality_score)
                        THEN Left(modification.modified_content, quality_score,
                                  iteration_ + 1, new_log, "plateau")
                        ELSE Loop(modification.modified_content, new_assessment,
                                  new_quality_score, iteration_ + 1, new_log)
                    : new_assessment \in
                          {AssessRequirementsQuality(modification.modified_content,
                                                     NoneValue)}})
                    : modification \in
                          {ApplyRequirementsImprovements(content, improvements_list,
                                                         assessment.language)}})
                : improvements_list \in
                      {IdentifyRequirementsImprovements(content, assessment)}})
    IN
    /\ v2_result = <<>>
    /\ \/ /\ v2_result' = [error |-> "requirements", success |-> FALSE]
          /\ UNCHANGED <<v2_requirements, v2_improvement_log, v2_assessed>>
       \/ \E assessment \in {AssessRequirementsQuality(v2_requirements, NoneValue)} :
             IF Reached(assessment.score)
             THEN /\ v2_result' = [success |-> TRUE, iterations |-> 0,
                                   final_quality_score |-> assessment.score,
                                   message |-> "professional"]
                  /\ v2_assessed' = assessment.score
                  /\ UNCHANGED <<v2_requirements, v2_improvement_log>>
             ELSE \E end \in {Loop(v2_requirements, assessment, assessment.score,
                                   0, v2_improvement_log)} :
                     /\ v2_requirements' = end.content
                     /\ v2_improvement_log' = end.log
                     /\ v2_assessed' = assessment.score
                     /\ v2_result' =
                            [success |-> TRUE, iterations |-> end.iteration,
                             initial_quality_score |-> end.quality_score,
                             final_quality_score |->
                                 AssessRequirementsQuality(end.content,
                                                           NoneValue).score,
                             stopping_reason |-> end.stopping_reason,
                             improvements_applied |-> end.log]
    /\ UNCHANGED <<v2_design, ctl_vars, ap_vars, gate_vars, ev_vars, tk_vars, bk_vars, wt_vars>>

\* enhance_design_completeness(design_path, requirements_path), given which
\* of the two files exist, the score of the design as read, the score after
\* each cycle, the number of cycles identify_design_improvements returns
\* something in and whether the content written differs from the content read
V2EnhanceDesign ==
    LET DesignScores == {Hundredths(100 * points) : points \in 0..MaxDesignPoints}
                            \cup {V2Defaults.quality_threshold}
        Reached(score) == ~RatLess(score, V2Defaults.quality_threshold)
        RECURSIVE Loop(_, _, _, _, _)
        Loop(quality_score, iteration_, log, cycle_scores, identifiable) ==
            IF iteration_ >= V2Defaults.max_iterations
            THEN [quality_score |-> quality_score, iteration |-> iteration_,
                  log |-> log, stopping_reason |-> "max_iterations"]
            ELSE IF Reached(quality_score)
            THEN [quality_score |-> quality_score, iteration |-> iteration_,
                  log |-> log, stopping_reason |-> "threshold_reached"]
            ELSE IF iteration_ >= identifiable
            THEN [quality_score |-> quality_score, iteration |-> iteration_,
                  log |-> log, stopping_reason |-> "no_improvements"]
            ELSE
            LET new_quality_score == cycle_scores[iteration_ + 1]
                new_log == Append(log, [stage |-> "design",
                                        iteration |-> iteration_ + 1,
                                        improvements |-> <<>>,
                                        quality_score |-> new_quality_score])
            IN  IF ~RatLess(quality_score, new_quality_score)
                THEN [quality_score |-> quality_score,
                      iteration |-> iteration_ + 1, log |-> new_log,
                      stopping_reason |-> "plateau"]
                ELSE Loop(new_quality_score, iteration_ + 1, new_log,
                          cycle_scores, identifiable)
    IN
    /\ v2_result = <<>>
    /\ \/ \E missing \in {"design", "requirements"} :
              /\ v2_result' = [error |-> missing, success |-> FALSE]
              /\ UNCHANGED <<v2_design, v2_improvement_log, v2_assessed>>
       \/ \E score \in DesignScores,
             cycle_scores \in [1..(MaxDesignPoints + 1) -> DesignScores],
             identifiable \in 0..(MaxDesignPoints + 1), changed \in BOOLEAN :
              LET end == Loop(score, 0, v2_improvement_log, cycle_scores,
                              identifiable)
                  final == IF end.iteration = 0 THEN score
                           ELSE cycle_scores[end.iteration]
              IN  /\ v2_design' = IF end.iteration > 0 /\ changed
                                  THEN "rewritten" ELSE v2_design
                  /\ v2_improvement_log' = end.log
                  /\ v2_assessed' = score
                  /\ v2_result' =
                         [success |-> TRUE, iterations |-> end.iteration,
                          initial_quality_score |-> end.quality_score,
                          final_quality_score |-> final,
                          stopping_reason |-> end.stopping_reason,
                          improvements_applied |-> end.log]
    /\ UNCHANGED <<v2_requirements, ctl_vars, ap_vars, gate_vars, ev_vars, tk_vars, bk_vars, wt_vars>>

V2Spec == V2Init /\ [][V2EnhanceRequirements \/ V2EnhanceDesign]_vars

\* ------------------------------------------------------------------------
\* Properties of the controller
\* ------------------------------------------------------------------------
ReadSucceeded == pc # "start" /\ result.stopping_reason # "file_read_error"
Returned == pc = "done"
CycleRescored == applicator_calls >= 1 /\ improvements > 0
WriteAttempted == \E i \in DOMAIN io_log : io_log[i].op = "write"
IoFailed == \E i \in DOMAIN io_log : ~io_log[i].ok

\* Number of low-delta cycles at the end of a score history.
RECURSIVE TrailingLow(_, _)
TrailingLow(h, min_improvement) ==
    IF Len(h) < 2 THEN 0
    ELSE IF h[Len(h)] - h[Len(h) - 1] < min_improvement
         THEN 1 + TrailingLow(SubSeq(h, 1, Len(h) - 1), min_improvement)
         ELSE 0

\* C1: whenever the re-score of a cycle is >= quality_threshold the loop is
\* left in that cycle and the result returned after a successful save has
\* stopping_reason 'threshold_reached', at every cycle number.
C1_ThresholdPrecedence ==
    (CycleRescored /\ new_score >= quality_threshold) =>
        /\ pc # "loop"
        /\ (Returned /\ result.success) =>
               result.stopping_reason = "threshold_reached"

\* C2: the loop halts, and never runs more than max_iterations cycles: the
\* iteration counter, the calls to the identifier and to the applicator and
\* the returned iterations stay within 0..max_iterations.
C2_Termination ==
    /\ <>Returned
    /\ [](/\ iteration \in 0..max_iterations
          /\ identifier_calls <= max_iterations
          /\ applicator_calls <= max_iterations
          /\ Returned => result.iterations \in 0..max_iterations)

C2_Witness ==
    Returned /\ max_iterations >= 2 /\ result.iterations = max_iterations

\* C3: every result returned after a successful read has
\* len(score_history) = iterations + 1.
C3_HistoryLength ==
    (Returned /\ ReadSucceeded) =>
        Len(result.score_history) = result.iterations + 1

\* C4: the document is written only when the final content differs from the
\* content that was read.
C4_WriteOnlyIfChanged == WriteAttempted => current_content # 0

\* C5: plateau_count is the number of consecutive low-delta cycles that end
\* the run so far (a cycle with delta >= min_score_improvement resets it, a
\* low-delta cycle increments it), the loop goes on while it is below
\* plateau_iterations and stops for plateau only when it has reached it.
C5_PlateauCounter ==
    /\ (pc \in {"loop", "after_loop"}
            /\ ~(CycleRescored /\ new_score >= quality_threshold)) =>
          plateau_count = TrailingLow(score_history, min_score_improvement)
    /\ pc = "loop" => plateau_count < plateau_iterations
    /\ (pc = "after_loop" /\ stopping_reason = "plateau") =>
          /\ plateau_count = plateau_iterations
          /\ TrailingLow(score_history, min_score_improvement)
                = plateau_iterations

C5_Witness ==
    /\ pc = "after_loop" /\ stopping_reason = "plateau"
    /\ plateau_iterations >= 2
    /\ Len(score_history) > plateau_iterations + 1

\* C6: a cycle that scores below the threshold and brings the plateau counter
\* to plateau_iterations makes the returned stopping_reason 'plateau', also
\* when it is the max_iterations-th cycle.
C6_PlateauPrecedence ==
    (/\ Returned /\ result.success /\ CycleRescored
     /\ new_score < quality_threshold
     /\ score_delta < min_score_improvement
     /\ plateau_count >= plateau_iterations) =>
        result.stopping_reason = "plateau"

\* C7: when the identifier returns an empty list in a cycle, nothing is
\* applied in that cycle and the returned stopping_reason is
\* 'no_improvements', at every cycle number.
C7_NoImprovements ==
    (iteration >= 1 /\ improvements = 0) =>
        /\ pc # "loop"
        /\ applicator_calls = iteration - 1
        /\ (Returned /\ result.success) =>
               result.stopping_reason = "no_improvements"

\* C8: every non-blank line of the document first handed to the applicator
\* is, character for character and trailing blanks included, a line of the
\* content the applicator returns, after any number of cycles.
C8_ContentPreserved ==
    ap_content # <<>> =>
        \A i \in DOMAIN ap_content :
            ~IsBlank(ap_content[i]) =>
                \E j \in DOMAIN ap_result.modified_content :
                    ap_result.modified_content[j] = ap_content[i]

\* C9: a document whose cycle-0 score already meets the threshold returns
\* iterations 0, 'threshold_reached', final = initial score and a one-entry
\* history, with no identifier call, no applicator call and no write.
C9_AlreadyMeets ==
    (Returned /\ ReadSucceeded /\ initial_score >= quality_threshold) =>
        /\ result.success
        /\ result.iterations = 0
        /\ result.stopping_reason = "threshold_reached"
        /\ result.final_score = result.initial_score
        /\ result.initial_score = initial_score
        /\ result.score_history = <<initial_score>>
        /\ identifier_calls = 0
        /\ applicator_calls = 0
        /\ ~WriteAttempted
        /\ file = 0

C9_Witness ==
    Returned /\ result.success /\ initial_score >= quality_threshold

\* C10: a failed read or write is the last I/O operation of the invocation
\* (no retry, nothing attempted after it), the method returns a result with
\* success False tagged file_read_error (iterations 0, no cycle run) or
\* file_write_error, and these tags are used for nothing else.
C10_IoFailureFatal ==
    /\ \A i \in DOMAIN io_log : ~io_log[i].ok => i = Len(io_log)
    /\ \A i, j \in DOMAIN io_log :
          (io_log[i].op = io_log[j].op /\ io_log[i].path = io_log[j].path)
              => i = j
    /\ IoFailed => Returned
    /\ Returned =>
          /\ result.success = ~IoFailed
          /\ (result.stopping_reason = "file_read_error") =
                (IoFailed /\ Last(io_log).op = "read")
          /\ (result.stopping_reason = "file_write_error") =
                (IoFailed /\ Last(io_log).op = "write")
          /\ result.stopping_reason = "file_read_error" =>
                /\ result.iterations = 0
                /\ iteration = 0
                /\ identifier_calls = 0
                /\ applicator_calls = 0
                /\ ~WriteAttempted

C10_Witness ==
    /\ Returned /\ IoFailed /\ Last(io_log).op = "write"
    /\ result.iterations >= 1

\* ------------------------------------------------------------------------
\* Claims about one call of the applicator
\* ------------------------------------------------------------------------
Called == ap_cycles > 0
SortedBatch == SortByPriority(ap_batch)
FailedOnes == [i \in DOMAIN ap_result.failed_improvements |->
                  ap_result.failed_improvements[i][1]]
InSeq(x, s) == \E i \in DOMAIN s : s[i] = x

\* C11: an improvement whose strategy raises is recorded in
\* failed_improvements with its exception, in the order of the attempts; the
\* content and the applied list are those of the same call without the
\* raising improvements, so that the content is untouched by the failure and
\* every other improvement of the batch is still attempted.
C11_FailureIsolated ==
    Called =>
        LET raising == SelectSeq(SortedBatch, StrategyRaises)
            others == SelectSeq(ap_batch, LAMBDA x : ~StrategyRaises(x))
            clean == Apply(ap_kind, ap_input, others, ap_language)
        IN  /\ ap_result.failed_improvements =
                   [i \in DOMAIN raising |-> <<raising[i], "TypeError">>]
            /\ ap_result.modified_content = clean.modified_content
            /\ ap_result.applied_improvements = clean.applied_improvements

\* a call in which an improvement raised and a later one was applied
C11_Witness ==
    /\ Called
    /\ \E i, j \in DOMAIN SortedBatch :
           /\ i < j
           /\ StrategyRaises(SortedBatch[i])
           /\ InSeq(SortedBatch[i], FailedOnes)
           /\ InSeq(SortedBatch[j], ap_result.applied_improvements)

\* the content handed to the i-th attempt of the call
ContentBefore(i) ==
    ApplyEach(ap_kind, ModificationResult(ap_input, <<>>, <<>>),
              SubSeq(SortedBatch, 1, i - 1), ap_language).modified_content

\* C12: an improvement whose strategy finds its template or its anchor
\* missing is recorded in failed_improvements.
C12_PreconditionFailureRecorded ==
    LET
        \* the early returns of the strategies for a missing template
        \* ('if not template: return content') or a missing anchor
        \* ('if not match: return content')
        PreconditionFails(kind, content, improvement, language) ==
            LET body == SubSeq(content, 1, Len(content) - 1)
            IN  IF kind = "design"
                THEN \/ /\ improvement.type = "add_section"
                        /\ GetTemplate(IF improvement.template # ""
                                       THEN improvement.template
                                       ELSE improvement.target_section) = EmptyStr
                     \/ /\ improvement.type = "add_component_detail"
                        /\ ~AnyLineIn(content, IF language = "zh"
                                               THEN ComponentsHeadingZh
                                               ELSE ComponentsHeadingEn)
                     \/ /\ improvement.type = "add_traceability"
                        /\ FirstLineIn(body, ComponentHeading, 1) = 0
                ELSE \/ /\ improvement.type = "add_section"
                        /\ GetTemplate(IF improvement.template # ""
                                       THEN improvement.template
                                       ELSE improvement.target_section) = EmptyStr
                     \/ /\ improvement.type = "enhance_criteria"
                        /\ FirstLineIn(body, RequirementHeading, 1) = 0
                     \/ /\ improvement.type = "add_edge_cases"
                        /\ ~AnyLineIn(content, IF language = "zh"
                                               THEN AcceptanceMarkerZh
                                               ELSE AcceptanceMarkerEn)
                     \/ /\ improvement.type = "add_nfr"
                        /\ AnyLineIn(content, NfrHeadingLiteral)
                        /\ improvement.missing_nfr # <<>>
                        /\ ~AnyLineIn(content, NfrHeadingPattern)
    IN
    Called =>
        \A i \in DOMAIN SortedBatch :
            PreconditionFails(ap_kind, ContentBefore(i), SortedBatch[i],
                              ap_language)
                => InSeq(SortedBatch[i], FailedOnes)

\* C13: every add_section improvement the identifier emitted in the last
\* cycle is for a section that the assessment it was given lists in
\* missing_sections.
C13_EmitsOnlyForMissing ==
    LET
        \* the entries of assessment.missing_sections that stand for the section an
        \* add_section improvement targets (the en branch of the evaluator has no
        \* entry for user stories)
        MissingSectionEntries(target_section) ==
            IF target_section = "<6982><8ff0>" THEN {"<6982><8ff0>/Introduction"}
            ELSE IF target_section = "<7528><6237><6545><4e8b>" THEN {"<7528><6237><6545><4e8b>"}
            ELSE IF target_section = "<529f><80fd><9700><6c42>" THEN {"<529f><80fd><9700><6c42>"}
            ELSE IF target_section = "<7ea6><675f><6761><4ef6>" THEN {"<7ea6><675f><6761><4ef6>"}
            ELSE IF target_section = "Introduction" THEN {"Introduction/Overview"}
            ELSE IF target_section = "Requirements" THEN {"Requirements"}
            ELSE IF target_section = "Constraints" THEN {"Constraints"}
            ELSE {}
    IN
    Called =>
        \A i \in DOMAIN ap_batch :
            ap_batch[i].type = "add_section" =>
                \E j \in DOMAIN AssessmentBefore.missing_sections :
                    AssessmentBefore.missing_sections[j]
                        \in MissingSectionEntries(ap_batch[i].target_section)

\* C14: for every improvement applied in the last cycle, the score of its
\* criterion in the assessment after the cycle is not below the score in the
\* assessment before the cycle.
C14_CriteriaMonotone ==
    LET
        \* the criterion of the assessment that a check of the identifier shares its
        \* test with: the improvement the check emits is the improvement for that
        \* criterion ("" for the checks without a criterion)
        CriterionOf(improvement) ==
            IF improvement.type = "add_section"
            THEN IF improvement.template \in {"constraints_zh", "constraints_en"}
                 THEN "constraints" ELSE "structure"
            ELSE IF improvement.type = "add_glossary_term" THEN "structure"
            ELSE IF improvement.type = "add_nfr" THEN "nfr_coverage"
            ELSE IF improvement.type = "enhance_criteria"
            THEN IF improvement.template \in {"ears_criteria_zh", "ears_criteria_en"}
                 THEN "ears_format"
                 ELSE IF improvement.template \in {"user_story_format_zh",
                                                   "user_story_format_en"}
                 THEN "user_stories"
                 ELSE "acceptance_criteria"
            ELSE ""
    IN
    Called =>
        \A i \in DOMAIN ap_result.applied_improvements :
            LET criterion == CriterionOf(ap_result.applied_improvements[i])
            IN  criterion # "" =>
                    ~RatLess(AssessmentAfter.criteria_scores[criterion],
                             AssessmentBefore.criteria_scores[criterion])

\* C15: in a call for the language en no improvement of the identifier names
\* a section written in Chinese: every field is in the locale of the call.
C15_LocaleConsistent ==
    LET
        \* the target sections of the identifiers that are written in Chinese
        \* (characters U+4E00 to U+9FFF)
        ChineseSections ==
            {"<6982><8ff0>", "<7528><6237><6545><4e8b>", "<529f><80fd><9700><6c42>",
             "<975e><529f><80fd><9700><6c42>", "<9a8c><6536><6807><51c6>",
             "<7ea6><675f><6761><4ef6>", "<7cfb><7edf><6982><8ff0>",
             "<67b6><6784><8bbe><8ba1>", "<7ec4><4ef6><8bbe><8ba1>", "<5168><6587>",
             "<6280><672f><9009><578b>", "<9519><8bef><5904><7406>",
             "<975e><529f><80fd><9700><6c42><8bbe><8ba1>",
             "<6b63><786e><6027><5c5e><6027>"}
        \* the improvements of the call that the identifier built (a caller's
        \* improvement has no target section)
        FromIdentifier(improvement) == improvement.target_section # NoneValue
    IN
    (Called /\ ap_language = "en") =>
        \A i \in DOMAIN ap_batch :
            FromIdentifier(ap_batch[i]) =>
                ap_batch[i].target_section \notin ChineseSections

\* number of lines of a content whose text is in S
CountLines(content, S) ==
    Cardinality({i \in DOMAIN content : content[i].text \in S})

\* C16: when the content handed to an attempt has a non-functional
\* requirements heading in a spelling nfr_pattern accepts, an add_nfr
\* improvement that names missing items leaves the number of such headings
\* as it is (no second heading for the section).
C16_NoSecondHeading ==
    Called =>
        \A i \in DOMAIN SortedBatch :
            (/\ ap_kind = "requirements"
             /\ SortedBatch[i].type = "add_nfr"
             /\ SortedBatch[i].missing_nfr # <<>>
             /\ AnyLineIn(ContentBefore(i), NfrHeadingPattern))
            => CountLines(ContentBefore(i + 1), NfrHeadingPattern) =
                   CountLines(ContentBefore(i), NfrHeadingPattern)

\* C17: the gate exits with 2 when the invocation is not valid (too few
\* arguments, unknown stage, missing document or companion file); for a valid
\* invocation it exits with 0 when the final score is at least the threshold
\* of the stage and with 1 when it is below.
C17_GateExitCode ==
    LET
        Exited == gate_exit # <<>>
        \* the stage of the command line is one of the three gates, the document
        \* and, for the design gate, the requirements document exist
        ValidInvocation ==
            /\ Len(gate_argv) >= 3
            /\ Lower(gate_argv[2]) \in {"requirements", "design", "tasks"}
            /\ gate_argv[3] \in gate_files
            /\ Lower(gate_argv[2]) = "design" =>
                   Len(gate_argv) >= 4 /\ gate_argv[4] \in gate_files
    IN
    Exited =>
        gate_exit[1] =
            IF ~ValidInvocation THEN 2
            ELSE IF gate_score >= (IF Lower(gate_argv[2]) = "tasks"
                                   THEN TasksThreshold ELSE DefaultThreshold)
            THEN 0 ELSE 1

\* C18: after every cycle (the document was below the threshold and the
\* identifier found improvements) the score of the content is strictly
\* greater than the score of the content before the cycle.
C18_ScoreStrictlyIncreases ==
    Called => RatLess(AssessmentBefore.score, AssessmentAfter.score)

\* position of an improvement in a list of distinct improvements
PositionIn(x, s) == CHOOSE i \in DOMAIN s : s[i] = x

\* s lists its improvements by non-decreasing priority rank and, inside one
\* rank, in the order of the batch
InAttemptOrder(s) ==
    \A i, j \in DOMAIN s :
        i < j =>
            \/ PriorityRank(s[i].priority) < PriorityRank(s[j].priority)
            \/ /\ PriorityRank(s[i].priority) = PriorityRank(s[j].priority)
               /\ PositionIn(s[i], ap_batch) < PositionIn(s[j], ap_batch)

\* C19: the improvements are attempted high, then medium, then low, in the
\* order of the batch inside a rank: the list of attempts is the batch in
\* that order, and applied_improvements and failed_improvements list their
\* improvements in that order.
C19_PriorityOrder ==
    Called =>
        /\ InAttemptOrder(ap_result.applied_improvements)
        /\ InAttemptOrder(FailedOnes)
        /\ \A i \in DOMAIN SortedBatch : InSeq(SortedBatch[i], ap_batch)
        /\ InAttemptOrder(SortedBatch)
        /\ Len(SortedBatch) = Len(ap_batch)

\* two improvements applied in the reverse of their order in the batch
C19_Witness ==
    /\ Called
    /\ \E i, j \in DOMAIN ap_result.applied_improvements :
           /\ i < j
           /\ PositionIn(ap_result.applied_improvements[i], ap_batch) >
                  PositionIn(ap_result.applied_improvements[j], ap_batch)

\* the presence test of the add-section strategies
MarkerPresent(kind, content, improvement, language) ==
    IF kind = "design"
    THEN AnyLineIn(content, DesignSectionLines(improvement.target_section))
    ELSE AnyLineIn(content, SectionLines(improvement.target_section,
                                         language))

\* C20: for every add_section improvement of the call and the content it
\* was handed: when the section marker is in the content the call with that
\* improvement alone returns the content with nothing applied and nothing
\* failed; and a second call with the same improvement on the result of the
\* first changes nothing and records nothing.
C20_SectionInsertionIdempotent ==
    Called =>
        \A i \in DOMAIN SortedBatch :
            LET x == SortedBatch[i]
                before == ContentBefore(i)
                once == Apply(ap_kind, before, <<x>>, ap_language)
                twice == Apply(ap_kind, once.modified_content, <<x>>,
                               ap_language)
            IN  (x.type = "add_section" /\ ~StrategyRaises(x)) =>
                    /\ MarkerPresent(ap_kind, before, x, ap_language)
                           => once = ModificationResult(before, <<>>, <<>>)
                    /\ twice = ModificationResult(once.modified_content,
                                                  <<>>, <<>>)

\* a call with an add_section improvement whose template exists and whose
\* marker is already in the content
C20_Witness ==
    /\ Called
    /\ Len(ap_batch) = 1
    /\ ap_batch[1].type = "add_section"
    /\ GetTemplate(ap_batch[1].template) # EmptyStr
    /\ ~StrategyRaises(ap_batch[1])
    /\ MarkerPresent(ap_kind, ap_input, ap_batch[1], ap_language)
    /\ ap_result = ModificationResult(ap_input, <<>>, <<>>)

\* C21: after any override of weights, by configure_weights or by
\* load_config, the weights of the requirements and the weights of the
\* design sum to 1.0 within the tolerance of 0.01, and load_config
\* renormalizes a set of weights that does not sum to 1.0 instead of failing.
C21_WeightsSumToOne ==
    LET RECURSIVE Sum(_)
        Sum(d) == IF DOMAIN d = {} THEN Rat(0, 1)
                  ELSE LET key == CHOOSE k \in DOMAIN d : TRUE
                       IN  RatAdd(d[key], Sum([k \in DOMAIN d \ {key} |-> d[k]]))
        WithinTolerance(total) ==
            /\ 100 * (total.num - total.den) <= total.den
            /\ 100 * (total.den - total.num) <= total.den
        Loaded(keys) == Sum([k \in keys |-> cm_config[k]])
    IN  wt_calls > 0 =>
           /\ WithinTolerance(Sum([c \in DOMAIN qs_requirements_weights |->
                                      Hundredths(qs_requirements_weights[c])]))
           /\ WithinTolerance(Sum([c \in DOMAIN qs_design_weights |->
                                      Hundredths(qs_design_weights[c])]))
           /\ WithinTolerance(Loaded({"req_structure_weight", "req_ears_weight",
                                       "req_stories_weight",
                                       "req_criteria_weight", "req_nfr_weight",
                                       "req_constraints_weight"}))
           /\ WithinTolerance(Loaded({"design_structure_weight",
                                       "design_traceability_weight",
                                       "design_components_weight",
                                       "design_diagrams_weight",
                                       "design_technology_weight",
                                       "design_nfr_weight",
                                       "design_interfaces_weight"}))
           /\ wt_last.outcome # "ZeroDivisionError"

\* C22: the score of an assessment is the sum of its criteria scores, 10 at
\* most; every criterion score lies between 0 and the points of its
\* criterion, and the score between 0 and 10 (requirements, design and tasks
\* assessments, 'zh' and 'en').
C22_ScoreIsClippedSum ==
    ev_log # <<>> =>
        LET scores == ev_assessment.criteria_scores
            caps == CriterionCaps(ev_call.mode)
            ten == Hundredths(1000)
            RECURSIVE Sum(_)
            Sum(names) ==
                IF names = {} THEN Hundredths(0)
                ELSE LET c == CHOOSE n \in names : TRUE
                     IN  RatAdd(scores[c], Sum(names \ {c}))
            total == Sum(DOMAIN scores)
            clipped == RatMin(total, ten)
        IN  /\ ev_assessment.score.num * clipped.den
                   = clipped.num * ev_assessment.score.den
            /\ DOMAIN scores = DOMAIN caps
            /\ \A c \in DOMAIN scores :
                   /\ ~RatLess(scores[c], Hundredths(0))
                   /\ ~RatLess(Hundredths(caps[c]), scores[c])
            /\ ~RatLess(ev_assessment.score, Hundredths(0))
            /\ ~RatLess(ten, ev_assessment.score)

\* a design document that reaches the points of every criterion, 11 in all,
\* and scores 10
C22_Witness ==
    /\ ev_log # <<>>
    /\ ev_call.mode = "design"
    /\ \A c \in DOMAIN ev_assessment.criteria_scores :
           ev_assessment.criteria_scores[c]
               = Hundredths(CriterionCaps("design")[c])
    /\ ev_assessment.score = Hundredths(1000)

C24_LanguageTag ==
    (/\ ev_log # <<>>
     /\ ev_call.mode # "tasks"
     /\ ev_call.language = NoneValue) =>
        LET ideographs == Count(ChineseChars, ev_call.content)
            words == Count(EnglishWords, ev_call.content)
            tag == ev_assessment.language
        IN  /\ ideographs > 100 => tag = "zh"
            /\ (ideographs <= 100 /\ words > 3 * ideographs) => tag = "en"
            /\ (ideographs <= 100 /\ words <= 3 * ideographs) => tag = "zh"
            /\ (ideographs = 0 /\ words = 0) => tag = "zh"

\* a document of exactly 100 ideographs and more than 300 words: 'en'
C24_Witness ==
    /\ ev_log # <<>>
    /\ ev_call.mode = "requirements"
    /\ ev_call.language = NoneValue
    /\ Count(ChineseChars, ev_call.content) = 100
    /\ Count(EnglishWords, ev_call.content) > 300
    /\ ev_assessment.language = "en"

\* C25: validate_tasks_completeness opens the tasks document for reading
\* only and leaves it as it was, and calls neither the identifier nor the
\* applicator; when the document was read it returns iterations 0,
\* stopping_reason 'validation_only' and score_history [score], where score
\* is 10 times the completed items over the items of the four statuses, and
\* 0 for a document without items.
C25_TasksReadOnly ==
    LET Items(status) ==
            Count([t \in DOMAIN TaskMatches |-> TaskMatches[t][status]],
                  tk_file)
        completed == Items("completed")
        total == completed + Items("in_progress") + Items("not_started")
                 + Items("queued")
    IN  /\ \A i \in DOMAIN tk_log : tk_log[i].op = "r"
        /\ \A i \in DOMAIN tk_calls : tk_calls[i] = "assess_tasks_quality"
        /\ identifier_calls = 0 /\ applicator_calls = 0
        /\ (tk_result # <<>> /\ tk_log[1].ok) =>
               LET returned == tk_result[1]
               IN  /\ returned.iterations = 0
                   /\ returned.stopping_reason = "validation_only"
                   /\ Len(returned.score_history) = 1
                   /\ returned.initial_score = returned.score_history[1]
                   /\ returned.final_score = returned.score_history[1]
                   /\ IF total = 0
                      THEN returned.final_score.num = 0
                      ELSE returned.final_score.num * total
                               = 10 * completed * returned.final_score.den

\* a validated document with a queued item and a completed one: 5 of 10
C25_Witness ==
    /\ tk_result # <<>>
    /\ tk_log[1].ok
    /\ Len(tk_file) = 2
    /\ \E i, j \in DOMAIN tk_file :
           /\ tk_file[i].text \in DOMAIN TaskMatches
           /\ tk_file[j].text \in DOMAIN TaskMatches
           /\ TaskMatches[tk_file[i].text].queued = 1
           /\ TaskMatches[tk_file[j].text].completed = 1
           /\ TaskMatches[tk_file[j].text].not_started = 0
    /\ tk_result[1].final_score.num * 2 = 10 * tk_result[1].final_score.den

\* C26: after restore_backup(id) returned, the document of every snapshot
\* that create_backup returned under this id, and that no cleanup removed,
\* has the content it had when the snapshot was taken.
C26_RestoreRoundTrip ==
    (/\ bk_last # <<>>
     /\ bk_last[1].op = "restore_backup"
     /\ bk_last[1].outcome = "True") =>
        \A k \in DOMAIN bk_taken :
            (bk_taken[k].backup_id = bk_last[1].argument /\ bk_taken[k].live)
                => bk_files[bk_taken[k].path] = bk_taken[k].content

\* C27: restore_backup and cleanup_backup called with an id that is not in
\* the registry (never created, or cleaned up) change no document, no backup
\* file and no registry entry; restore_backup raises ValueError and
\* cleanup_backup returns False.  After a cleanup_backup that returned True
\* the id is in no list_backups result and get_backup_info returns None.
C27_UnknownIdNoEffect ==
    [][(bk_last' # <<>>
        /\ bk_last'[1].op \in {"restore_backup", "cleanup_backup"}) =>
           LET call == bk_last'[1]
           IN  /\ call.argument \notin DOMAIN bk_backups =>
                      /\ UNCHANGED <<bk_files, bk_store, bk_backups>>
                      /\ call.outcome = IF call.op = "restore_backup"
                                        THEN "ValueError" ELSE "False"
               /\ (call.op = "cleanup_backup" /\ call.outcome = "True") =>
                      /\ \A p \in BackupPaths \cup {NoneValue} :
                             call.argument \notin ListBackups(bk_backups', p)
                      /\ GetBackupInfo(bk_backups', call.argument) = <<>>]_vars

\* restore_backup with the id of a snapshot that was cleaned up
C27_Witness ==
    /\ bk_last # <<>>
    /\ bk_last[1].op = "restore_backup"
    /\ bk_last[1].outcome = "ValueError"
    /\ \E k \in DOMAIN bk_taken :
           /\ bk_taken[k].backup_id = bk_last[1].argument
           /\ ~bk_taken[k].live
           /\ bk_files[bk_taken[k].path] # bk_taken[k].content

\* C28: every result returned after a successful read has a score history
\* whose first entry is initial_score and whose last entry is final_score.
C28_ScoresMatchHistory ==
    (Returned /\ ReadSucceeded) =>
        /\ result.score_history # <<>>
        /\ result.initial_score = Head(result.score_history)
        /\ result.final_score = Last(result.score_history)

C28_Witness ==
    /\ Returned /\ ReadSucceeded
    /\ Len(result.score_history) >= 3
    /\ result.final_score # result.initial_score

\* C29: after a call of the applicator, applied_improvements is non-empty
\* exactly when the content differs from the content given; an improvement is
\* in applied_improvements exactly when its strategy returned a text other
\* than the text handed to it; no improvement is both applied and failed; the
\* two lists together are no longer than the list of improvements given.
C29_AppliedIffChanged ==
    Called =>
        /\ (ap_result.applied_improvements # <<>>)
               <=> (ap_result.modified_content # ap_input)
        /\ \A sorted \in {SortedBatch} :
               \A i \in DOMAIN sorted :
                   \A before \in {ContentBefore(i)} :
                       InSeq(sorted[i], ap_result.applied_improvements)
                           <=> /\ ~StrategyRaises(sorted[i])
                               /\ Strategy(ap_kind, before, sorted[i], ap_language)
                                      # before
        /\ \A i \in DOMAIN ap_batch :
               ~(/\ InSeq(ap_batch[i], ap_result.applied_improvements)
                 /\ InSeq(ap_batch[i], FailedOnes))
        /\ Len(ap_result.applied_improvements)
               + Len(ap_result.failed_improvements) <= Len(ap_batch)

\* a call in which one improvement was applied and another changed nothing
C29_Witness ==
    /\ Called
    /\ ap_result.modified_content # ap_input
    /\ \E i, j \in DOMAIN ap_batch :
           /\ InSeq(ap_batch[i], ap_result.applied_improvements)
           /\ ~InSeq(ap_batch[j], ap_result.applied_improvements)
           /\ ~InSeq(ap_batch[j], FailedOnes)

\* C30: the dictionary an enhancement method of the V2 enhancer returns gives
\* as initial_quality_score the score of the assessment made on the document
\* as it was read, whatever the number of cycles performed.
C30_InitialScoreReported ==
    (v2_result # <<>> /\ "initial_quality_score" \in DOMAIN v2_result)
        => /\ ~RatLess(v2_result.initial_quality_score, v2_assessed)
           /\ ~RatLess(v2_assessed, v2_result.initial_quality_score)

====
